---- MODULE Spec2Model ----
(***************************************************************************)
(* Execution controller of the online assembly debugger                    *)
(* (src/js/unicorn-debugger.js): the UnicornDebugger class, the page-level *)
(* unicornDebugger reference and the click handlers that drive it.         *)
(*                                                                         *)
(* The CPU emulation engine and the disassembler are external.  The engine *)
(* is modelled by its contract: a program counter, a stack of return       *)
(* addresses, one HOOK_CODE callback per fetched instruction, and an       *)
(* outcome per emu_start call that is chosen among everything the engine   *)
(* can answer at the current address (EngineOutcomes).                     *)
(*                                                                         *)
(* The specifications share the variables: Spec and FairSpec drive the     *)
(* execution controller, BuildSpec steps through the file load and the     *)
(* Initialize handler that builds the memory image (sections, stack, entry *)
(* point, relocations, exit trampoline), ResolveSpec applies               *)
(* extractFunctionSymbols and mapAssemblyToC to their inputs, SessionSpec  *)
(* follows edits, compiler runs, uploads and resets of the page, and       *)
(* ProgramSpec runs small compiled programs on the built image the way the *)
(* test harness does, with the few x86-64 instructions they use.           *)
(***************************************************************************)
EXTENDS Integers, Sequences, FiniteSets, TLC

\* ---------------------------------------------------------------- bounds
\* Runaway-loop ceiling of runUntilHalt (10000 in the source), scaled down;
\* every formula below is stated in terms of this name.
maxInstructions == 3
\* Debugger instances created by the runUnicorn handler in one behaviour.
MaxDebuggers == 2
\* User requests (clicks, loads, API calls) in one behaviour.
MaxEvents == 6
\* User requests in one behaviour of the specification with fairness.
MaxFairEvents == 4

\* ------------------------------------------------------ target address space
\* Abstract addresses of the loaded image.
NullAddr == 0    \* not mapped
EntryPoint == 1  \* entry address handed to the constructor
LoopAddr == 2    \* a branch: back to the entry, on, or out of the image
RetAddr == 3     \* last instruction of the entry function
BadAddr == 4     \* bytes the engine rejects
ExitAddr == 5    \* object: halt trampoline; executable: hlt that ends _start
Addrs == 0..5
\* null / undefined of the JavaScript fields that hold an address or a count
NoAddr == -1
Undefined == -1

Images == {"object", "exec"}

\* What lies at address a of image img.
InsnKind(img, a) ==
  IF a = NullAddr THEN "unmapped"
  ELSE IF a = BadAddr THEN "invalid"
  ELSE IF a = ExitAddr THEN "hlt"
  ELSE IF a = RetAddr /\ img = "object" THEN "ret"
  ELSE "insn"

\* Program counter values one executed instruction at a can leave, with the
\* number of words it pops.  A ret takes the word at the stack pointer: the
\* trampoline address as long as nothing was popped since Initialize, a
\* zero word of the freshly mapped stack after that.
Successors(img, a, popped) ==
  CASE InsnKind(img, a) = "ret" ->
         {[next |-> IF popped = 0 THEN ExitAddr ELSE NullAddr, pops |-> 1]}
    [] InsnKind(img, a) = "hlt" -> {[next |-> NullAddr, pops |-> 0]}
    [] a = EntryPoint -> {[next |-> LoopAddr, pops |-> 0]}
    [] a = LoopAddr ->
         {[next |-> n, pops |-> 0] : n \in {EntryPoint, RetAddr, BadAddr, NullAddr}}
    [] a = RetAddr -> {[next |-> ExitAddr, pops |-> 0]}
    [] OTHER -> {}

\* The accumulator after the instruction at address a was carried out.  The
\* program's data is not modelled: every instruction leaves its own address
\* there, so that the value before an instruction differs from the one after.
ResultOf(a) == a

\* ------------------------------------------------------------ the debugger
\* A constructor that never calls setupHooks().
NewDebugger_noHooks(img, entry) ==
  [ image |-> img,
    engine |-> [pc |-> entry, popped |-> 0, hooks |-> 0, rax |-> 0],
    entryPoint |-> entry,
    currentAddress |-> entry,
    breakpoints |-> {},
    isRunning |-> FALSE,
    isPaused |-> FALSE,
    executionTrace |-> << >>,
    lastLoggedAddress |-> NoAddr,
    pendingTrace |-> NoAddr,
    executionCount |-> Undefined,
    timers |-> 0,
    lastLog |-> "initialized" ]

\* new UnicornDebugger(engine, is64bit, entryPoint), followed by the
\* register writes of the constructor and setupHooks().
NewDebugger(img, entry) ==
  [ image |-> img,
    engine |-> [pc |-> entry, popped |-> 0, hooks |-> 1, rax |-> 0],
    entryPoint |-> entry,
    currentAddress |-> entry,
    breakpoints |-> {},
    isRunning |-> FALSE,
    isPaused |-> FALSE,
    executionTrace |-> << >>,
    lastLoggedAddress |-> NoAddr,
    pendingTrace |-> NoAddr,
    executionCount |-> Undefined,
    timers |-> 0,
    lastLog |-> "initialized" ]

\* Placeholder of a slot of the instance table that holds no instance yet.
NoDebugger == [NewDebugger("exec", NullAddr) EXCEPT !.engine.hooks = 0, !.lastLog = "none"]

\* updateButtonStates(): a no-op in performance mode.
updateButtonStates(ui, running, perf) ==
  IF perf THEN ui
  ELSE IF running
    THEN [ui EXCEPT !.runHidden = TRUE, !.stopHidden = FALSE,
                    !.stepDisabled = TRUE, !.resetDisabled = TRUE]
    ELSE [ui EXCEPT !.runHidden = FALSE, !.runDisabled = FALSE, !.stopHidden = TRUE,
                    !.stepDisabled = FALSE, !.resetDisabled = FALSE]

\* The HOOK_CODE callback without the run-mode update at a breakpoint.
hookCode_keepsRunning(d, address) ==
  LET d1 == [d EXCEPT !.currentAddress = address]
      d2 == IF d1.lastLoggedAddress = NoAddr \/ d1.lastLoggedAddress # address
            THEN [d1 EXCEPT !.pendingTrace =
                               IF InsnKind(d.image, address) = "invalid"
                               THEN d1.pendingTrace ELSE address,
                            !.lastLoggedAddress = address]
            ELSE d1
  IN IF address \in d2.breakpoints
     THEN [d |-> [d2 EXCEPT !.lastLog = IF InsnKind(d.image, address) = "hlt"
                                        THEN "completed" ELSE "breakpoint"],
           ret |-> FALSE]
     ELSE [d |-> d2, ret |-> TRUE]

\* The HOOK_CODE callback installed by setupHooks(): the instance after the
\* callback, and ret = FALSE when the callback returns false to the engine.
hookCode(d, address) ==
  LET d1 == [d EXCEPT !.currentAddress = address]
      d2 == IF d1.lastLoggedAddress = NoAddr \/ d1.lastLoggedAddress # address
            THEN [d1 EXCEPT !.pendingTrace =
                               IF InsnKind(d.image, address) = "invalid"
                               THEN d1.pendingTrace ELSE address,
                            !.lastLoggedAddress = address]
            ELSE d1
  IN IF address \in d2.breakpoints
     THEN [d |-> [d2 EXCEPT !.isPaused = TRUE, !.isRunning = FALSE,
                            !.lastLog = IF InsnKind(d.image, address) = "hlt"
                                        THEN "completed" ELSE "breakpoint"],
           ret |-> FALSE]
     ELSE [d |-> d2, ret |-> TRUE]

\* Everything emu_start can answer for one instruction at the current
\* program counter.  hook: the HOOK_CODE callback ran; executed: the
\* instruction was carried out; err: the error the call (or the mem_read
\* before it) raises.  When the hook returns false the engine either stops
\* before the instruction or ignores the return value.  Bytes that do not
\* decode always raise: in stepInstruction, which reads instructions[0] of
\* an empty disassembly before emu_start, or in the engine.
EngineOutcomes(d) ==
  LET a == d.engine.pc
      k == InsnKind(d.image, a)
      stopped == IF d.engine.hooks > 0 /\ ~hookCode(d, a).ret
                 THEN {[hook |-> TRUE, executed |-> FALSE, next |-> a, pops |-> 0, err |-> "none"]}
                 ELSE {}
  IN IF k = "unmapped"
       THEN {[hook |-> FALSE, executed |-> FALSE, next |-> a, pops |-> 0,
              err |-> "UC_ERR_READ_UNMAPPED"]}
     ELSE IF k = "invalid"
       THEN {[hook |-> h, executed |-> FALSE, next |-> a, pops |-> 0,
              err |-> "UC_ERR_INSN_INVALID"] : h \in {FALSE, d.engine.hooks > 0}}
     ELSE stopped \cup
          UNION { {[hook |-> d.engine.hooks > 0, executed |-> TRUE, next |-> s.next,
                    pops |-> s.pops, err |-> e] :
                     e \in IF InsnKind(d.image, s.next) = "unmapped"
                           THEN {"none", "UC_ERR_FETCH_UNMAPPED"} ELSE {"none"}} :
                  s \in Successors(d.image, a, d.engine.popped) }

\* logExecutedInstruction(): the line pushed holds the address of the
\* pending record and the accumulator as the engine holds it now.
logExecutedInstruction(d) ==
  IF d.pendingTrace # NoAddr
  THEN [d EXCEPT !.executionTrace = Append(@, [address |-> d.pendingTrace,
                                               rax |-> d.engine.rax]),
                 !.pendingTrace = NoAddr]
  ELSE d

\* stepInstruction() that pushes the trace line before emu_start.
stepInstruction_logsBeforeExecution(c, o) ==
  LET d0 == [c.d EXCEPT !.isPaused = FALSE]
      d1 == IF o.hook THEN hookCode(d0, d0.engine.pc).d ELSE d0
      logged == logExecutedInstruction(d1)
      d2 == IF o.executed
            THEN [logged EXCEPT !.engine.pc = o.next, !.engine.popped = @ + o.pops,
                                !.engine.rax = ResultOf(d0.engine.pc)]
            ELSE logged
  IN IF o.err = "none"
     THEN [c EXCEPT !.d = [d2 EXCEPT !.currentAddress = d2.engine.pc,
                                     !.lastLoggedAddress = NoAddr]]
     ELSE [c EXCEPT !.d = [d2 EXCEPT !.isPaused = TRUE, !.isRunning = FALSE, !.lastLog = o.err]]

\* stepInstruction() whose catch block leaves the run mode as it was.
stepInstruction_errorKeepsMode(c, o) ==
  LET d0 == [c.d EXCEPT !.isPaused = FALSE]
      d1 == IF o.hook THEN hookCode(d0, d0.engine.pc).d ELSE d0
      d2 == IF o.executed
            THEN [d1 EXCEPT !.engine.pc = o.next, !.engine.popped = @ + o.pops,
                            !.engine.rax = ResultOf(d0.engine.pc)]
            ELSE d1
  IN IF o.err = "none"
     THEN [c EXCEPT !.d = [logExecutedInstruction([d2 EXCEPT !.currentAddress = d2.engine.pc])
                             EXCEPT !.lastLoggedAddress = NoAddr]]
     ELSE [c EXCEPT !.d = [d2 EXCEPT !.lastLog = o.err]]

\* stepInstruction(), with o the engine's answer.  c = [d, ui] is the
\* instance together with the page's buttons.
stepInstruction(c, o) ==
  LET d0 == [c.d EXCEPT !.isPaused = FALSE]
      startAddr == d0.engine.pc
      d1 == IF o.hook THEN hookCode(d0, startAddr).d ELSE d0
      d2 == IF o.executed
            THEN [d1 EXCEPT !.engine.pc = o.next, !.engine.popped = @ + o.pops,
                            !.engine.rax = ResultOf(d0.engine.pc)]
            ELSE d1
  IN IF o.err = "none"
     THEN [c EXCEPT !.d = [logExecutedInstruction([d2 EXCEPT !.currentAddress = d2.engine.pc])
                             EXCEPT !.lastLoggedAddress = NoAddr]]
     ELSE [c EXCEPT !.d = [d2 EXCEPT !.isPaused = TRUE, !.isRunning = FALSE, !.lastLog = o.err]]

\* stopExecution() that forgets to clear isRunning.
stopExecution_keepsRunning(c, perf) ==
  [d |-> [c.d EXCEPT !.isPaused = TRUE],
   ui |-> updateButtonStates(c.ui, FALSE, perf)]

\* stopExecution()
stopExecution(c, perf) ==
  [d |-> [c.d EXCEPT !.isRunning = FALSE, !.isPaused = TRUE],
   ui |-> updateButtonStates(c.ui, FALSE, perf)]

\* isHaltInstruction(address) that never recognises the halt opcode.
isHaltInstruction_never(d, address) == FALSE

\* isHaltInstruction(address)
isHaltInstruction(d, address) == InsnKind(d.image, address) = "hlt"

\* continueExecution() whose ceiling test is > instead of >=.
continueExecution_offByOne(c, o, perf) ==
  IF ~c.d.isRunning \/ c.d.isPaused THEN c
  ELSE IF c.d.executionCount > maxInstructions
    THEN [stopExecution(c, perf) EXCEPT !.d.lastLog = "limit"]
  ELSE IF isHaltInstruction(c.d, c.d.engine.pc)
    THEN [stopExecution(c, perf) EXCEPT !.d.lastLog = "hlt"]
  ELSE [stepInstruction(c, o) EXCEPT !.d.executionCount = @ + 1, !.d.timers = @ + 1]

\* continueExecution() without the isRunning / isPaused test at its start.
continueExecution_ignoresStop(c, o, perf) ==
  IF c.d.executionCount >= maxInstructions
    THEN [stopExecution(c, perf) EXCEPT !.d.lastLog = "limit"]
  ELSE IF isHaltInstruction(c.d, c.d.engine.pc)
    THEN [stopExecution(c, perf) EXCEPT !.d.lastLog = "hlt"]
  ELSE [stepInstruction(c, o) EXCEPT !.d.executionCount = @ + 1, !.d.timers = @ + 1]

\* continueExecution(), with o the engine's answer should it step.
continueExecution(c, o, perf) ==
  IF ~c.d.isRunning \/ c.d.isPaused THEN c
  ELSE IF c.d.executionCount >= maxInstructions
    THEN [stopExecution(c, perf) EXCEPT !.d.lastLog = "limit"]
  ELSE IF isHaltInstruction(c.d, c.d.engine.pc)
    THEN [stopExecution(c, perf) EXCEPT !.d.lastLog = "hlt"]
  ELSE [stepInstruction(c, o) EXCEPT !.d.executionCount = @ + 1, !.d.timers = @ + 1]

\* runUntilHalt() that leaves isPaused as it finds it.
runUntilHalt_keepsPaused(c, o, perf) ==
  IF c.d.isRunning THEN c
  ELSE continueExecution(
         [d |-> [c.d EXCEPT !.isRunning = TRUE, !.executionCount = 0, !.lastLog = "running"],
          ui |-> updateButtonStates(c.ui, TRUE, perf)], o, perf)

\* runUntilHalt()
runUntilHalt(c, o, perf) ==
  IF c.d.isRunning THEN c
  ELSE continueExecution(
         [d |-> [c.d EXCEPT !.isRunning = TRUE, !.isPaused = FALSE, !.executionCount = 0,
                            !.lastLog = "running"],
          ui |-> updateButtonStates(c.ui, TRUE, perf)], o, perf)

\* reset() that does not clear isRunning.
reset_keepsRunning(c, perf) ==
  [d |-> [c.d EXCEPT !.currentAddress = c.d.entryPoint, !.executionTrace = << >>,
                     !.lastLoggedAddress = NoAddr, !.isPaused = FALSE,
                     !.executionCount = 0, !.engine.pc = c.d.entryPoint, !.lastLog = "reset"],
   ui |-> updateButtonStates(c.ui, FALSE, perf)]

\* reset()
reset(c, perf) ==
  [d |-> [c.d EXCEPT !.currentAddress = c.d.entryPoint, !.executionTrace = << >>,
                     !.lastLoggedAddress = NoAddr, !.isRunning = FALSE, !.isPaused = FALSE,
                     !.executionCount = 0, !.engine.pc = c.d.entryPoint, !.lastLog = "reset"],
   ui |-> updateButtonStates(c.ui, FALSE, perf)]

\* addBreakpoint(address)
addBreakpoint(d, address) == [d EXCEPT !.breakpoints = @ \cup {address}]

\* ------------------------------------------------------------------ state
VARIABLES
  dbg,       \* the UnicornDebugger instances created so far, by creation order
  current,   \* index of the instance `unicornDebugger` refers to, 0 for null
  parsed,    \* kind of the image held by `parsed`, "none" for null
  ui,        \* disabled / hidden state of the Step, Run, Stop, Reset buttons
  perfMode,  \* window.isPerformanceModeActive
  events,    \* user requests made so far
  ev,        \* the handler that ran last and what the engine did in it
  hist,      \* per instance: bookkeeping of the current Run, for the properties
  stale,     \* instances that were current when a later load or Initialize happened
  build,     \* the runUnicorn handler in progress: its position, locals and engine
  resolved,  \* the last call of extractFunctionSymbols: arguments and returned list
  page,      \* the editor text, the stored function names and the Initialize button
  cpu        \* the registers and stack words of the engine the last Initialize built,
             \* the run mode of its debugger and the test harness's progress

vars == <<dbg, current, parsed, ui, perfMode, events, ev, hist, stale, build, resolved, page, cpu>>

\* No runUnicorn handler has run since the last load.
NoBuild == [pc |-> "idle"]

\* extractFunctionSymbols has not been called.
NoResolved == [called |-> FALSE, mapped |-> FALSE]

\* window.lastCompiledCode = null.
NoCode == "null"

\* window.compiledFunctionNames = null.  `madeFrom` is the source text the
\* object the names were read from was compiled from.
NoNames == [stored |-> FALSE, functions |-> << >>, madeFrom |-> NoCode]

\* The page after the script was loaded: an empty editor, nothing stored,
\* nothing compiled, no load attempted, no stored names applied to a file.
NoPage ==
  [source |-> "", compiledFunctionNames |-> NoNames, lastCompiledCode |-> NoCode,
   runUnicornDisabled |-> FALSE, exitCode |-> 0, compiled |-> FALSE, lastLoad |-> "none",
   applied |-> NoNames, appliedTo |-> NoCode]

\* No engine has been handed to a debugger yet.
NoCpu == [on |-> FALSE]

Ids == 1..MaxDebuggers

NoHist == [runSteps |-> 0, runRecords |-> 0, ended |-> "none", endedAt |-> NoAddr, afterEnd |-> 0,
           faulted |-> FALSE, afterFault |-> 0, retried |-> FALSE]

NoEvent == [op |-> "none", who |-> 0, stepped |-> FALSE, executed |-> FALSE,
            hookAtBp |-> FALSE, hookStop |-> FALSE, err |-> "none"]

Event(op, who) == [NoEvent EXCEPT !.op = op, !.who = who]

\* The event record of a handler that called stepInstruction on d with answer o.
StepEvent(op, who, d, o) ==
  [op |-> op, who |-> who, stepped |-> TRUE, executed |-> o.executed,
   hookAtBp |-> o.hook /\ d.engine.pc \in d.breakpoints,
   hookStop |-> o.hook /\ ~hookCode(d, d.engine.pc).ret, err |-> o.err]

FatalErrors == {"UC_ERR_INSN_INVALID", "UC_ERR_FETCH_UNMAPPED"}

\* The current Run ends for the given reason with the program counter at pc
\* (only the first end of a Run is recorded).
MarkEnd(h, reason, pc) ==
  IF h.ended = "none" THEN [h EXCEPT !.ended = reason, !.endedAt = pc] ELSE h

\* Bookkeeping after stepInstruction ran on d with answer o; byRun tells a
\* step of the Run loop from a Step request.
HistStep(h, d, o, byRun) ==
  LET atBp == o.hook /\ d.engine.pc \in d.breakpoints
      after == stepInstruction([d |-> d, ui |-> ui], o).d
      h1 == IF byRun
            THEN [h EXCEPT !.runSteps = @ + 1,
                           !.runRecords = @ + Len(after.executionTrace) - Len(d.executionTrace),
                           !.afterEnd = IF h.ended # "none" /\ o.executed THEN @ + 1 ELSE @]
            ELSE h
      h2 == [h1 EXCEPT !.afterFault = IF h.faulted /\ o.executed THEN @ + 1 ELSE @,
                       !.retried = @ \/ h.faulted,
                       !.faulted = @ \/ o.err \in FatalErrors]
  IN IF d.isRunning /\ (atBp \/ o.err # "none")
     THEN MarkEnd(h2, IF atBp THEN "breakpoint" ELSE "error", after.engine.pc)
     ELSE h2

Init ==
  /\ dbg = [i \in Ids |-> NoDebugger]
  /\ current = 0
  /\ parsed = "none"
  /\ ui \in [stepDisabled : BOOLEAN, resetDisabled : BOOLEAN, runDisabled : BOOLEAN,
             runHidden : BOOLEAN, stopHidden : BOOLEAN]
  /\ perfMode = FALSE
  /\ events = 0
  /\ ev = NoEvent
  /\ hist = [i \in Ids |-> NoHist]
  /\ stale = {}
  /\ build = NoBuild
  /\ resolved = NoResolved
  /\ page = NoPage
  /\ cpu = NoCpu

\* ---------------------------------------------------------------- actions
\* autoLoadCompiledFile / the fileInput change handler: a new image is parsed.
LoadImage(budget) ==
  /\ events < budget
  /\ \E img \in Images : parsed' = img
  /\ stale' = stale \cup (IF current > 0 THEN {current} ELSE {})
  /\ events' = events + 1
  /\ ev' = Event("load", current)
  /\ UNCHANGED <<dbg, current, ui, perfMode, hist, build, resolved, page, cpu>>

\* The runUnicorn click handler: build the image, create the debugger, add
\* the exit breakpoint of a relocatable object, enable the controls.  The
\* relocatable object is one whose main lies past the start of .text, so the
\* handler sets up the trampoline (exitAddr is not null).
Initialize(budget) ==
  /\ events < budget
  /\ parsed # "none"
  /\ current < MaxDebuggers
  /\ LET fresh == NewDebugger(parsed, EntryPoint)
         d == IF parsed = "object" THEN addBreakpoint(fresh, ExitAddr) ELSE fresh
     IN dbg' = [dbg EXCEPT ![current + 1] = d]
  /\ current' = current + 1
  /\ ui' = [ui EXCEPT !.stepDisabled = FALSE, !.runDisabled = FALSE, !.resetDisabled = FALSE]
  /\ stale' = stale \cup (IF current > 0 THEN {current} ELSE {})
  /\ events' = events + 1
  /\ ev' = Event("init", current + 1)
  /\ UNCHANGED <<parsed, perfMode, hist, build, resolved, page, cpu>>

\* The stepBtn click handler.
StepClick(budget) ==
  /\ events < budget
  /\ current > 0
  /\ ~ui.stepDisabled
  /\ \E o \in EngineOutcomes(dbg[current]) :
       LET c == stepInstruction([d |-> dbg[current], ui |-> ui], o)
       IN /\ dbg' = [dbg EXCEPT ![current] = c.d]
          /\ ui' = c.ui
          /\ ev' = StepEvent("step", current, dbg[current], o)
          /\ hist' = [hist EXCEPT ![current] = HistStep(@, dbg[current], o, FALSE)]
  /\ events' = events + 1
  /\ UNCHANGED <<current, parsed, perfMode, stale, build, resolved, page, cpu>>

\* The runBtn click handler.
RunClick(budget) ==
  /\ events < budget
  /\ current > 0
  /\ ~ui.runDisabled
  /\ \E o \in EngineOutcomes(dbg[current]) :
       LET c0 == [d |-> dbg[current], ui |-> ui]
           c == runUntilHalt(c0, o, perfMode)
           starts == ~c0.d.isRunning
           entered == [c0.d EXCEPT !.isRunning = TRUE, !.isPaused = FALSE,
                                   !.executionCount = 0]
           steps == starts /\ c.d.executionCount = 1
           h0 == IF starts
                 THEN [hist[current] EXCEPT !.runSteps = 0, !.runRecords = 0, !.ended = "none",
                                            !.endedAt = NoAddr, !.afterEnd = 0]
                 ELSE hist[current]
           h1 == IF steps THEN HistStep(h0, entered, o, TRUE)
                 ELSE IF starts /\ ~c.d.isRunning THEN MarkEnd(h0, c.d.lastLog, c.d.engine.pc)
                 ELSE h0
       IN /\ dbg' = [dbg EXCEPT ![current] = c.d]
          /\ ui' = c.ui
          /\ ev' = IF steps THEN StepEvent("run", current, entered, o)
                   ELSE Event("run", current)
          /\ hist' = [hist EXCEPT ![current] = h1]
  /\ events' = events + 1
  /\ UNCHANGED <<current, parsed, perfMode, stale, build, resolved, page, cpu>>

\* The stopBtn click handler (and the harness's timeout, which calls
\* stopExecution directly).
StopClick(budget) ==
  /\ events < budget
  /\ current > 0
  /\ LET c == stopExecution([d |-> dbg[current], ui |-> ui], perfMode)
     IN /\ dbg' = [dbg EXCEPT ![current] = [c.d EXCEPT !.lastLog = "stopped"]]
        /\ ui' = c.ui
  /\ hist' = [hist EXCEPT ![current] =
                IF dbg[current].isRunning THEN MarkEnd(@, "stop", dbg[current].engine.pc) ELSE @]
  /\ events' = events + 1
  /\ ev' = Event("stop", current)
  /\ UNCHANGED <<current, parsed, perfMode, stale, build, resolved, page, cpu>>

\* The resetBtn click handler.
ResetClick(budget) ==
  /\ events < budget
  /\ current > 0
  /\ ~ui.resetDisabled
  /\ LET c == reset([d |-> dbg[current], ui |-> ui], perfMode)
     IN /\ dbg' = [dbg EXCEPT ![current] = c.d]
        /\ ui' = c.ui
  /\ hist' = [hist EXCEPT ![current] =
                [(IF dbg[current].isRunning THEN MarkEnd(@, "reset", dbg[current].engine.pc) ELSE @)
                   EXCEPT !.faulted = FALSE, !.afterFault = 0, !.retried = FALSE]]
  /\ events' = events + 1
  /\ ev' = Event("reset", current)
  /\ UNCHANGED <<current, parsed, perfMode, stale, build, resolved, page, cpu>>

\* A caller of the class adds a breakpoint to the current instance.
AddBreakpoint(budget) ==
  /\ events < budget
  /\ current > 0
  /\ \E a \in {LoopAddr, BadAddr} \ dbg[current].breakpoints :
       dbg' = [dbg EXCEPT ![current] = addBreakpoint(@, a)]
  /\ events' = events + 1
  /\ ev' = Event("addBreakpoint", current)
  /\ UNCHANGED <<current, parsed, ui, perfMode, hist, stale, build, resolved, page, cpu>>

\* runAllTestsWithPerformanceMeasurement switches performance mode on, and
\* off again when it is done.
TogglePerformanceMode(budget) ==
  /\ events < budget
  /\ perfMode' = ~perfMode
  /\ events' = events + 1
  /\ ev' = Event("perf", current)
  /\ UNCHANGED <<dbg, current, parsed, ui, hist, stale, build, resolved, page, cpu>>

\* A 5 ms timer of instance i expires: its continueExecution callback runs.
TimerFire(i) ==
  /\ dbg[i].timers > 0
  /\ \E o \in EngineOutcomes(dbg[i]) :
       LET c0 == [d |-> [dbg[i] EXCEPT !.timers = @ - 1], ui |-> ui]
           c == continueExecution(c0, o, perfMode)
           steps == c.d.executionCount = c0.d.executionCount + 1
           h1 == IF steps THEN HistStep(hist[i], c0.d, o, TRUE)
                 ELSE IF c0.d.isRunning /\ ~c.d.isRunning
                   THEN MarkEnd(hist[i], c.d.lastLog, c.d.engine.pc)
                 ELSE hist[i]
       IN /\ dbg' = [dbg EXCEPT ![i] = c.d]
          /\ ui' = c.ui
          /\ ev' = IF steps THEN StepEvent("timer", i, c0.d, o) ELSE Event("timer", i)
          /\ hist' = [hist EXCEPT ![i] = h1]
  /\ UNCHANGED <<current, parsed, perfMode, events, stale, build, resolved, page, cpu>>

Next ==
  \/ LoadImage(MaxEvents)
  \/ Initialize(MaxEvents)
  \/ StepClick(MaxEvents)
  \/ RunClick(MaxEvents)
  \/ StopClick(MaxEvents)
  \/ ResetClick(MaxEvents)
  \/ AddBreakpoint(MaxEvents)
  \/ TogglePerformanceMode(MaxEvents)
  \/ \E i \in Ids : TimerFire(i)

Spec == Init /\ [][Next]_vars

\* The same system with a shorter budget of user requests and the controls
\* in one initial state, for the properties over whole behaviours.
FairInit ==
  /\ Init
  /\ ui = [stepDisabled |-> TRUE, resetDisabled |-> TRUE, runDisabled |-> TRUE,
           runHidden |-> FALSE, stopHidden |-> TRUE]

FairNext ==
  \/ LoadImage(MaxFairEvents)
  \/ Initialize(MaxFairEvents)
  \/ StepClick(MaxFairEvents)
  \/ RunClick(MaxFairEvents)
  \/ StopClick(MaxFairEvents)
  \/ ResetClick(MaxFairEvents)
  \/ AddBreakpoint(MaxFairEvents)
  \/ TogglePerformanceMode(MaxFairEvents)
  \/ \E i \in Ids : TimerFire(i)

\* Timer callbacks that are due are eventually delivered.
FairSpec == FairInit /\ [][FairNext]_vars /\ \A i \in Ids : WF_vars(TimerFire(i))

\* ------------------------------------------------------------- properties
\* The states of the execution controller, read off the two run-mode flags.
Running(d) == d.isRunning
Paused(d) == ~d.isRunning /\ ~d.isPaused
Halted(d) == ~d.isRunning /\ d.isPaused

\* C1: in every Run, counted from the runUntilHalt call that started it, the
\* Run loop calls stepInstruction at most maxInstructions times and appends at
\* most that many records to the execution trace.
RunStepsBounded ==
  \A i \in Ids : /\ hist[i].runSteps <= maxInstructions
                 /\ hist[i].runRecords <= maxInstructions

\* A Run that stepped maxInstructions times and was ended by the ceiling.
RunHitsCeiling ==
  \E i \in Ids : /\ hist[i].runSteps = maxInstructions
                 /\ hist[i].ended = "limit"
                 /\ hist[i].runRecords = maxInstructions

StopTakesEffect ==
  \A i \in Ids : hist[i].ended = "stop" => hist[i].afterEnd <= 1 /\ ~dbg[i].isRunning

\* The callback that was pending when Stop was requested has run.
StoppedRunCallbackRan ==
  \E i \in Ids : /\ hist[i].ended = "stop"
                 /\ ev.op = "timer" /\ ev.who = i
                 /\ dbg[i].timers = 0

\* C4: an instance that was current when a later image was loaded or a later
\* debugger was initialized executes no instruction any more.
NoStaleExecution == ev.executed => ev.who \notin stale

\* C5: a Step request made while a Run is in progress executes no instruction
\* and changes neither the program counter, the trace nor the run mode.
StepOnlyWhenPaused ==
  [][ (current > 0 /\ ev'.op = "step" /\ dbg[current].isRunning)
        => /\ ~ev'.executed
           /\ dbg'[current].engine.pc = dbg[current].engine.pc
           /\ dbg'[current].executionTrace = dbg[current].executionTrace
           /\ dbg'[current].isRunning = dbg[current].isRunning
           /\ dbg'[current].isPaused = dbg[current].isPaused ]_vars

\* C6: after a step failed with an invalid-instruction or unmapped-fetch error
\* the instance is Halted and executes no instruction, by Step or by Run,
\* until it is reset (Initialize creates another instance).
FaultIsFinal ==
  \A i \in Ids : hist[i].faulted => Halted(dbg[i]) /\ hist[i].afterFault = 0

\* A Run was requested on an instance whose earlier step had failed.
RunAfterFault ==
  \E i \in Ids : /\ hist[i].faulted /\ hist[i].retried
                 /\ ev.op = "run" /\ ev.who = i /\ ev.stepped

\* C7: Reset leaves the program counter at the entry address, the trace empty,
\* the instruction counter zero and the controller Paused; a Run that was in
\* progress when Reset was requested executes no instruction afterwards.
ResetRestores ==
  \A i \in Ids :
    /\ (ev.op = "reset" /\ ev.who = i)
         => /\ dbg[i].engine.pc = dbg[i].entryPoint
            /\ dbg[i].currentAddress = dbg[i].entryPoint
            /\ dbg[i].executionTrace = << >>
            /\ dbg[i].executionCount = 0
            /\ Paused(dbg[i])
    /\ hist[i].ended = "reset" => hist[i].afterEnd = 0 /\ ~dbg[i].isRunning

\* Reset was requested during a Run that had stepped, and the callback that
\* was pending at that moment has run.
ResetDuringRun ==
  \E i \in Ids : /\ hist[i].ended = "reset"
                 /\ hist[i].runSteps > 0
                 /\ ev.op = "timer" /\ ev.who = i
                 /\ dbg[i].engine.pc = dbg[i].entryPoint

\* C8 as stated: after Initialize the program counter is the entry address,
\* the breakpoint set and the trace are empty, the hook is installed and the
\* controller is Paused.
InitializeClearsAll ==
  (ev.op = "init")
    => /\ dbg[current].engine.pc = dbg[current].entryPoint
       /\ dbg[current].breakpoints = {}
       /\ dbg[current].executionTrace = << >>
       /\ dbg[current].engine.hooks = 1
       /\ Paused(dbg[current])

\* C8 amended: as above, except that the breakpoint set of a relocatable
\* object holds exactly the halt-trampoline address.
InitializePostcondition ==
  (ev.op = "init")
    => /\ dbg[current].engine.pc = dbg[current].entryPoint
       /\ dbg[current].breakpoints = IF dbg[current].image = "object" THEN {ExitAddr} ELSE {}
       /\ dbg[current].executionTrace = << >>
       /\ dbg[current].engine.hooks = 1
       /\ Paused(dbg[current])

\* A second debugger was initialized on a relocatable object while the first
\* one had a trace and a breakpoint of its own.
Reinitialized ==
  /\ ev.op = "init" /\ current = 2
  /\ dbg[2].image = "object"
  /\ dbg[1].executionTrace # << >>
  /\ LoopAddr \in dbg[1].breakpoints

\* C9: when the hook fires at an address of the breakpoint set it returns
\* false to the engine and the instance is left not running and paused; the
\* Run it ended executes no later instruction.
BreakpointEndsRun ==
  \A i \in Ids :
    /\ (ev.hookAtBp /\ ev.who = i) => ev.hookStop /\ ~dbg[i].isRunning /\ dbg[i].isPaused
    /\ hist[i].ended = "breakpoint" => hist[i].afterEnd = 0 /\ ~dbg[i].isRunning

\* A Run was ended by a breakpoint whose instruction the engine still
\* executed, and the callback scheduled after it has run.
BreakpointHitInRun ==
  \E i \in Ids : /\ hist[i].ended = "breakpoint"
                 /\ hist[i].endedAt # LoopAddr
                 /\ ev.op = "timer" /\ ev.who = i /\ ~ev.stepped

\* C10 as stated: a Run of a relocatable object with the breakpoint at the
\* trampoline that ended (not by Stop or Reset) with the program counter at
\* the trampoline ended for the reason "halt reached".
TrampolineRunCompletes ==
  \A i \in Ids :
    ( /\ dbg[i].image = "object" /\ ExitAddr \in dbg[i].breakpoints
      /\ hist[i].endedAt = ExitAddr
      /\ hist[i].ended \notin {"none", "stop", "reset"} )
      => hist[i].ended \in {"hlt", "completed"}

\* C10 amended: when the Run loop finds the program counter at the trampoline
\* before the ceiling is reached, it ends the Run Halted with the reason
\* "halt reached" without stepping; the hook fires at the trampoline only in
\* a Step request and then does not report a plain breakpoint.
TrampolineHaltReached ==
  [][ \A i \in Ids :
        ( /\ ev'.who = i
          /\ dbg[i].image = "object" /\ ExitAddr \in dbg[i].breakpoints
          /\ dbg[i].engine.pc = ExitAddr )
        => /\ ( \/ ev'.op = "run" /\ ~dbg[i].isRunning
                \/ /\ ev'.op = "timer" /\ dbg[i].isRunning /\ ~dbg[i].isPaused
                   /\ dbg[i].executionCount < maxInstructions )
                => ~ev'.stepped /\ Halted(dbg'[i]) /\ dbg'[i].lastLog = "hlt"
           /\ ev'.hookAtBp => ev'.op = "step" /\ dbg'[i].lastLog # "breakpoint" ]_vars

\* A Run whose code returned through ret to the trampoline was ended there
\* by the halt test.
ReturnedToTrampoline ==
  \E i \in Ids : /\ dbg[i].image = "object"
                 /\ dbg[i].engine.popped = 1
                 /\ dbg[i].engine.pc = ExitAddr
                 /\ hist[i].ended = "hlt"
                 /\ ev.op = "timer" /\ ev.who = i

\* ======================================================== image builder
\* The file-load handlers, parseELF and the runUnicorn click handler up to
\* the creation of the debugger.  A buffer is described by its first four
\* bytes and by the tables its headers decode to; addresses and sizes are
\* the numbers of the source (JavaScript numbers, exact below 2^53).

\* ---------------------------------------------------------------- bounds
\* Section headers of one file.
MaxSections == 2
\* Entries of .rela.text of one file.
MaxRelas == 2
\* Program headers of one file.
MaxProgramHeaders == 2

\* ------------------------------------------------------------- constants
PageSize == 4096            \* 0x1000
ObjectBase == 268435456     \* 0x10000000, first baseAddr of an object file
STACK_SIZE == 65536         \* 0x10000
StackGap == 1048576         \* 0x100000, distance kept below the stack
SHF_WRITE == 1              \* the ELF section flag bits
SHF_ALLOC == 2
SHF_EXECINSTR == 4
PT_LOAD == 1
STT_FUNC == 2
R_X86_64_PC32 == 2
R_X86_64_PLT32 == 4
R_X86_64_32 == 10
HLT == 244                  \* 0xF4
ElfMagic == <<127, 69, 76, 70>>

\* x & bit # 0 for a single-bit mask.
HasBit(x, bit) == (x \div bit) % 2 = 1

\* Math.ceil(x / 0x1000) * 0x1000 and Math.floor(x / 0x1000) * 0x1000.
PageCeil(x) == ((x + PageSize - 1) \div PageSize) * PageSize
PageFloor(x) == (x \div PageSize) * PageSize

Max(a, b) == IF a >= b THEN a ELSE b

\* ----------------------------------------------------------------- inputs
SectionNames == <<".text", ".data", ".bss">>

\* flags: SHF_ALLOC + SHF_EXECINSTR; addr: 0 as in a relocatable object or a
\* virtual address (0x401000, 0x401800, 0x402800); size: empty, 0x100, 0x1800.
SectionFlags == {6}
SectionAddrs == {0, 4198400, 4200448, 4204544}
SectionSizes == {0, 256, 6144}

SectionsOfLen(n) ==
  { [i \in 1..n |-> [name |-> SectionNames[i], flags |-> t[i].flags, addr |-> t[i].addr,
                     size |-> t[i].size, offset |-> 64 * i]] :
      t \in [1..n -> [flags : SectionFlags, addr : SectionAddrs, size : SectionSizes]] }

SectionTables == UNION { SectionsOfLen(n) : n \in 0..MaxSections }

\* The sections of a small relocatable object: 16 bytes of code, data and a
\* section that is not loaded.
SmallObjectSections ==
  << [name |-> ".text", flags |-> 6, addr |-> 0, size |-> 16, offset |-> 64],
     [name |-> ".data", flags |-> 3, addr |-> 0, size |-> 8, offset |-> 128],
     [name |-> ".comment", flags |-> 0, addr |-> 0, size |-> 8, offset |-> 192] >>

\* The sections of a small linked executable.
SmallExecSections ==
  << [name |-> ".text", flags |-> 6, addr |-> 4198400, size |-> 256, offset |-> 4096],
     [name |-> ".data", flags |-> 3, addr |-> 4206592, size |-> 16, offset |-> 8192] >>

\* The section of a linked executable that starts in the middle of a page
\* (0x401800) and is one page long, so it ends in the middle of the next.
StraddlingExecSections ==
  << [name |-> ".text", flags |-> 6, addr |-> 4200448, size |-> 4096, offset |-> 4096] >>

\* A buffer with no symbol table, no relocations and no program headers.  Its
\* code: at 0 a call with operand at 1 and ret, at 8 push rbp, a call with
\* operand at 10, pop rbp, ret.
PlainBuffer(sections) ==
  [magic |-> ElfMagic, class64 |-> TRUE, entry |-> 0, sections |-> sections,
   programHeaders |-> << >>, hasSymtab |-> FALSE, hasStrtab |-> FALSE,
   symbols |-> << >>, hasDynsym |-> FALSE, hasDynstr |-> FALSE, dynSymbols |-> << >>,
   relas |-> << >>, madeFrom |-> NoCode,
   text |-> <<232, 0, 0, 0, 0, 195, 144, 144, 85, 232, 0, 0, 0, 0, 93, 195>>]

\* Symbol table entries as the handlers decode them: name read from the
\* string table, st_value, the type nibble of st_info, st_size.
NullSymbol == [name |-> "", value |-> 0, type |-> 0, size |-> 0]
FuncSymbol(name, value) == [name |-> name, value |-> value, type |-> STT_FUNC, size |-> 0]
UndefSymbol(name) == [name |-> name, value |-> 0, type |-> 0, size |-> 0]

\* A file for the resolver: its .text holds `text`, at address addr.
ResolverBuffer(text, addr) ==
  [magic |-> ElfMagic, class64 |-> TRUE, entry |-> addr,
   sections |-> << [name |-> ".text", flags |-> 6, addr |-> addr, size |-> Len(text),
                    offset |-> 64] >>,
   programHeaders |-> << >>, hasSymtab |-> FALSE, hasStrtab |-> FALSE, symbols |-> << >>,
   hasDynsym |-> FALSE, hasDynstr |-> FALSE, dynSymbols |-> << >>,
   relas |-> << >>, madeFrom |-> NoCode, text |-> text]

SymbolTables ==
  { <<NullSymbol>>,
    <<NullSymbol, FuncSymbol("main", 0)>>,
    <<NullSymbol, FuncSymbol("main", 8)>>,
    <<NullSymbol, FuncSymbol("helper", 0), FuncSymbol("main", 8)>>,
    <<NullSymbol, FuncSymbol("main", 0), FuncSymbol("helper", 8)>>,
    <<NullSymbol, FuncSymbol("helper", 0), UndefSymbol("printf")>>,
    <<NullSymbol, [FuncSymbol("helper", 0) EXCEPT !.size = 8],
      [FuncSymbol("main", 8) EXCEPT !.size = 8]>> }

\* Files that differ in their section table.
LayoutBuffers ==
  { [PlainBuffer(t) EXCEPT !.entry = IF \E i \in DOMAIN t : t[i].addr = 0 THEN 0 ELSE 4198400] :
      t \in SectionTables }
  \cup { PlainBuffer(SmallExecSections),
         [PlainBuffer(StraddlingExecSections) EXCEPT !.entry = 4200448] }

\* Relocatable objects that differ in symbol table and word size.
SymbolBuffers ==
  { [PlainBuffer(SmallObjectSections) EXCEPT !.hasSymtab = TRUE, !.hasStrtab = h,
                                             !.symbols = st, !.class64 = c] :
      st \in SymbolTables, c \in BOOLEAN, h \in BOOLEAN }

\* Entries of .rela.text as decoded: r_offset, symbol index and type of r_info.
\* Offsets: inside the code (the call back to helper at 10, the call forward
\* to main at 1), and with its last bytes past the mapped pages.
\* Symbols: helper (1), main (2), the undefined printf (3), an index past the table.
\* Types: PC32, PLT32, 32 and the unsupported R_X86_64_64 (1).
RelaEntries ==
  [offset : {10}, symbolIndex : {1, 3, 7}, type : {2, 4, 10, 1}]
  \cup [offset : {1}, symbolIndex : {2}, type : {2, 10}]
  \cup [offset : {8190}, symbolIndex : {1}, type : {4, 10}]

RelaTables == UNION { [1..n -> RelaEntries] : n \in 0..MaxRelas }

RelocSymbols ==
  <<NullSymbol, FuncSymbol("helper", 0), FuncSymbol("main", 8), UndefSymbol("printf")>>

\* Relocatable objects that differ in their relocation table.
RelocBuffers ==
  { [PlainBuffer(SmallObjectSections) EXCEPT !.hasSymtab = TRUE, !.hasStrtab = TRUE,
                                             !.symbols = RelocSymbols, !.relas = r] :
      r \in RelaTables }

ProgramHeaderEntries == [type : {PT_LOAD, 4}, vaddr : {4194304, 8388608}, memsz : {0, 8192}]

\* Linked executables that differ in their program headers.
SegmentBuffers ==
  { [PlainBuffer(SmallExecSections) EXCEPT !.entry = 4198400, !.programHeaders = ph] :
      ph \in UNION { [1..n -> ProgramHeaderEntries] : n \in 0..MaxProgramHeaders } }

\* Buffers that do not start with 0x7F 'E' 'L' 'F', some shorter than 4 bytes.
BadMagics == { <<127, 69, 76, 71>>, <<77, 90, 144, 0>>, <<127, 69>>, << >> }

ForeignBuffers ==
  { [PlainBuffer(t) EXCEPT !.magic = m] : m \in BadMagics,
                                          t \in {SmallObjectSections, SmallExecSections} }

Buffers == LayoutBuffers \cup SymbolBuffers \cup RelocBuffers \cup SegmentBuffers \cup ForeignBuffers

\* parseELF that returns a view whose buffer it has emptied.
parseELF_consumesBuffer(buf) ==
  IF \E i \in 1..4 : i > Len(buf.magic) \/ buf.magic[i] # ElfMagic[i]
  THEN [ok |-> FALSE, error |-> "Not an ELF file"]
  ELSE [ok |-> TRUE, error |-> "none",
        value |-> [elfHeader |-> [class |-> IF buf.class64 THEN "ELF64" ELSE "ELF32",
                                  entry |-> buf.entry],
                   programHeaders |-> buf.programHeaders,
                   sectionHeaders |-> buf.sections,
                   view |-> [buf EXCEPT !.magic = << >>]]]

\* parseELF without the test of the signature.
parseELF_noSignatureTest(buf) ==
  [ok |-> TRUE, error |-> "none",
   value |-> [elfHeader |-> [class |-> IF buf.class64 THEN "ELF64" ELSE "ELF32",
                             entry |-> buf.entry],
              programHeaders |-> buf.programHeaders,
              sectionHeaders |-> buf.sections,
              view |-> buf]]

\* parseELF: compares the first four bytes with the ELF signature one by one
\* and throws at the first that differs (reading past the end of a shorter
\* buffer throws a RangeError), else returns the decoded headers and the
\* view of the buffer.
parseELF(buf) ==
  IF \E i \in 1..4 : i > Len(buf.magic) \/ buf.magic[i] # ElfMagic[i]
  THEN LET i == CHOOSE i \in 1..4 : /\ i > Len(buf.magic) \/ buf.magic[i] # ElfMagic[i]
                                    /\ \A j \in 1..(i - 1) : j <= Len(buf.magic)
                                                             /\ buf.magic[j] = ElfMagic[j]
       IN [ok |-> FALSE,
           error |-> IF i > Len(buf.magic) THEN "RangeError" ELSE "Not an ELF file"]
  ELSE [ok |-> TRUE, error |-> "none",
        value |-> [elfHeader |-> [class |-> IF buf.class64 THEN "ELF64" ELSE "ELF32",
                                  entry |-> buf.entry],
                   programHeaders |-> buf.programHeaders,
                   sectionHeaders |-> buf.sections,
                   view |-> buf]]

\* `parsed` before any file was loaded.
NoParsed == [elfHeader |-> [class |-> "none", entry |-> 0], programHeaders |-> << >>,
             sectionHeaders |-> << >>, view |-> [magic |-> << >>]]

\* ------------------------------------------------------------ the engine
\* The emulator memory as the builder sees it: the regions mapped so far,
\* every mem_map request with its result, every successful mem_write, and
\* the stack pointer register.
NewEngine == [regions |-> {}, maps |-> << >>, writes |-> << >>, sp |-> 0]

Overlaps(a1, s1, a2, s2) == a1 < a2 + s2 /\ a2 < a1 + s1

\* The protection bits of the engine, as the set of the bits that are set.
PROT_ALL == {"PROT_READ", "PROT_WRITE", "PROT_EXEC"}

\* engine.mem_map: the engine refuses a range that overlaps a mapped one.
mem_map(engine, name, addr, size, prot) ==
  LET ok == \A r \in engine.regions : ~Overlaps(addr, size, r.addr, r.size)
      req == [name |-> name, addr |-> addr, size |-> size, prot |-> prot, ok |-> ok]
  IN [ok |-> ok,
      engine |-> [engine EXCEPT !.maps = Append(@, req),
                                !.regions = IF ok THEN @ \cup {[addr |-> addr, size |-> size]}
                                            ELSE @]]

Mapped(engine, a) == \E r \in engine.regions : r.addr <= a /\ a < r.addr + r.size

\* engine.mem_write of len bytes: the engine refuses a range with an
\* unmapped page.  src tells where the bytes come from: the file at an
\* offset, or a byte array built by the handler.
mem_write(engine, addr, len, src) ==
  LET pages == { PageFloor(addr) + k * PageSize :
                   k \in 0 .. ((addr + len - 1) \div PageSize) - (addr \div PageSize) }
      ok == \A pg \in pages : Mapped(engine, pg)
  IN [ok |-> ok,
      engine |-> IF ok THEN [engine EXCEPT !.writes = Append(@, [addr |-> addr, len |-> len,
                                                                  src |-> src])]
                 ELSE engine]

FromFile(offset) == [file |-> TRUE, offset |-> offset, bytes |-> << >>]
FromBytes(bytes) == [file |-> FALSE, offset |-> 0, bytes |-> bytes]

\* The byte of the buffer at a file offset: the code of .text, 0 elsewhere.
FileByte(buf, off) ==
  LET t == { i \in DOMAIN buf.sections : buf.sections[i].name = ".text" }
  IN IF \E i \in t : buf.sections[i].offset <= off /\ off < buf.sections[i].offset + Len(buf.text)
     THEN LET i == CHOOSE i \in t : buf.sections[i].offset <= off
                                    /\ off < buf.sections[i].offset + Len(buf.text)
          IN buf.text[off - buf.sections[i].offset + 1]
     ELSE 0

\* The byte the engine holds at address a: that of the last write that
\* covers a, 0 in memory never written.
ReadByte(buf, engine, a) ==
  LET hits == { k \in DOMAIN engine.writes :
                  engine.writes[k].addr <= a /\ a < engine.writes[k].addr + engine.writes[k].len }
  IN IF hits = {} THEN 0
     ELSE LET k == CHOOSE k \in hits : \A j \in hits : j <= k
              w == engine.writes[k]
          IN IF w.src.file THEN FileByte(buf, w.src.offset + (a - w.addr))
             ELSE w.src.bytes[a - w.addr + 1]

\* The signed 32-bit value of the little-endian bytes at address a.
ReadInt32(buf, engine, a) ==
  ReadByte(buf, engine, a) + 256 * ReadByte(buf, engine, a + 1)
  + 65536 * ReadByte(buf, engine, a + 2)
  + 16777216 * (IF ReadByte(buf, engine, a + 3) >= 128 THEN ReadByte(buf, engine, a + 3) - 256
                ELSE ReadByte(buf, engine, a + 3))

EmptyMap == [x \in {} |-> 0]
MapSet(f, k, v) == [x \in DOMAIN f \cup {k} |-> IF x = k THEN v ELSE f[x]]

\* ------------------------------------------------- the runUnicorn handler
\* The locals of the handler at its start, from the destructured `parsed`.
startBuild(p) ==
  LET isObjectFile == \E i \in DOMAIN p.sectionHeaders :
                         /\ HasBit(p.sectionHeaders[i].flags, SHF_ALLOC)
                         /\ p.sectionHeaders[i].size > 0
                         /\ p.sectionHeaders[i].addr = 0
  IN [pc |-> "sections", file |-> p, is64bit |-> p.elfHeader.class = "ELF64",
      isObjectFile |-> isObjectFile,
      baseAddr |-> IF isObjectFile THEN ObjectBase ELSE Undefined,
      i |-> 1, mappedRegions |-> {}, sectionAddresses |-> EmptyMap, engine |-> NewEngine,
      STACK_ADDR |-> Undefined, mainAddr |-> Undefined, functionMap |-> EmptyMap,
      functionBoundaries |-> EmptyMap,
      entryPoint |-> p.elfHeader.entry, r |-> 1, exitAddr |-> Undefined, error |-> "none"]

\* The cursor after a section of the given size was assigned targetAddr.
nextBaseAddr_noAdvance(targetAddr, size) == targetAddr

nextBaseAddr(targetAddr, size) == targetAddr + PageCeil(size)

\* The protection the handler asks for a section with the given flags:
\* `prot || PROT_READ` of the three tests of the flag bits 0x1, 0x2, 0x4.
sectionProt(flags) ==
  LET prot == (IF HasBit(flags, 1) THEN {"PROT_READ"} ELSE {})
              \cup (IF HasBit(flags, 2) THEN {"PROT_WRITE"} ELSE {})
              \cup (IF HasBit(flags, 4) THEN {"PROT_EXEC"} ELSE {})
  IN IF prot = {} THEN {"PROT_READ"} ELSE prot

\* One iteration of sectionHeaders.forEach.
mapSection(b, sh) ==
  IF ~(HasBit(sh.flags, SHF_ALLOC) /\ sh.size > 0) THEN b
  ELSE
    LET assign == b.isObjectFile /\ sh.addr = 0
        targetAddr == IF assign THEN PageCeil(b.baseAddr) ELSE sh.addr
        b1 == IF assign THEN [b EXCEPT !.baseAddr = nextBaseAddr(targetAddr, sh.size)] ELSE b
        alignedAddr == PageFloor(targetAddr)
        alignedSize == Max(PageSize, PageCeil(sh.size))
        regionKey == <<alignedAddr, alignedSize>>
        m == mem_map(b1.engine, sh.name, alignedAddr, alignedSize, sectionProt(sh.flags))
        b2 == [b1 EXCEPT !.engine = m.engine,
                         !.mappedRegions = @ \cup {regionKey},
                         !.sectionAddresses = MapSet(@, sh.name, targetAddr)]
        w == mem_write(b2.engine, targetAddr, sh.size, FromFile(sh.offset))
    IN IF targetAddr = 0 THEN b1
       ELSE IF regionKey \in b1.mappedRegions THEN b1
       ELSE IF ~m.ok THEN [b1 EXCEPT !.engine = m.engine]
       ELSE IF sh.size > 0 /\ sh.offset > 0 THEN [b2 EXCEPT !.engine = w.engine]
       ELSE b2

\* The highest end address of the allocated sections and PT_LOAD segments.
highestAddr(p) ==
  LET ends == { p.sectionHeaders[i].addr + p.sectionHeaders[i].size :
                  i \in { j \in DOMAIN p.sectionHeaders :
                            /\ HasBit(p.sectionHeaders[j].flags, SHF_ALLOC)
                            /\ p.sectionHeaders[j].size > 0
                            /\ p.sectionHeaders[j].addr > 0 } }
              \cup
              { p.programHeaders[i].vaddr + p.programHeaders[i].memsz :
                  i \in { j \in DOMAIN p.programHeaders :
                            /\ p.programHeaders[j].type = PT_LOAD
                            /\ p.programHeaders[j].memsz > 0 } }
  IN IF ends = {} THEN 0 ELSE CHOOSE e \in ends : \A x \in ends : x <= e

\* STACK_ADDR of a linked executable.
execStackAddr_below(highest) == PageFloor(highest)

execStackAddr(highest) == PageCeil(highest + StackGap)

\* Stack placement, mapping and the initial stack pointer.  A mem_map that
\* throws here is not caught: the handler ends.
setupStack(b) ==
  LET addr == IF b.isObjectFile THEN b.baseAddr + StackGap
              ELSE execStackAddr(highestAddr(b.file))
      m == mem_map(b.engine, "stack", addr, STACK_SIZE, PROT_ALL)
  IN IF m.ok
     THEN [b EXCEPT !.STACK_ADDR = addr, !.pc = "entry",
                    !.engine = [m.engine EXCEPT !.sp = addr + STACK_SIZE - PageSize]]
     ELSE [b EXCEPT !.STACK_ADDR = addr, !.pc = "aborted", !.engine = m.engine,
                    !.error = "UC_ERR_MAP"]

\* A number plus undefined is NaN, which is written Undefined as well.
Plus(a, b) == IF a = Undefined \/ b = Undefined THEN Undefined ELSE a + b

\* sectionAddresses.get('.text')
textAddrOf(b) ==
  IF ".text" \in DOMAIN b.sectionAddresses THEN b.sectionAddresses[".text"] ELSE Undefined

\* The symbol table the handler can read: both .symtab and .strtab present.
symbolsOf(p) == IF p.view.hasSymtab /\ p.view.hasStrtab THEN p.view.symbols ELSE << >>

\* The value of the first symbol named main, null without one.
findMain(p) ==
  LET syms == symbolsOf(p)
      hits == { k \in DOMAIN syms : syms[k].name = "main" }
  IN IF hits = {} THEN Undefined
     ELSE syms[CHOOSE k \in hits : \A j \in hits : k <= j].value

\* functionMap: the address of every named function symbol; of two symbols
\* with one name the later one stays.
buildFunctionMap(p, textAddr) ==
  LET syms == symbolsOf(p)
      funcs == { k \in DOMAIN syms : syms[k].name # "" /\ syms[k].type = STT_FUNC }
  IN [n \in { syms[k].name : k \in funcs } |->
        Plus(textAddr, syms[CHOOSE k \in funcs : /\ syms[k].name = n
                                                 /\ \A j \in funcs : syms[j].name = n => j <= k].value)]

\* functions.sort((a, b) => a.address - b.address): a stable sort.
RECURSIVE sortByAddress(_)
sortByAddress(functions) ==
  IF functions = << >> THEN << >>
  ELSE LET least == CHOOSE k \in DOMAIN functions :
                      /\ \A j \in DOMAIN functions : functions[k].address <= functions[j].address
                      /\ \A j \in 1..(k - 1) : functions[j].address # functions[k].address
       IN <<functions[least]>>
          \o sortByAddress(SubSeq(functions, 1, least - 1)
                           \o SubSeq(functions, least + 1, Len(functions)))

\* functionBoundaries: start and size of every named function symbol, taken
\* in order of address; a size of 0 is replaced by the distance to the next
\* function of the sorted list, if there is one.
buildFunctionBoundaries(p, textAddr) ==
  LET syms == symbolsOf(p)
      keep(sym) == sym.name # "" /\ sym.value >= 0 /\ sym.type = STT_FUNC
      pushed == [k \in DOMAIN SelectSeq(syms, keep) |->
                   [name |-> SelectSeq(syms, keep)[k].name,
                    address |-> Plus(textAddr, SelectSeq(syms, keep)[k].value),
                    offset |-> SelectSeq(syms, keep)[k].value,
                    size |-> SelectSeq(syms, keep)[k].size]]
      functions == sortByAddress(pushed)
      funcSize(i) == IF functions[i].size = 0 /\ i < Len(functions)
                     THEN functions[i + 1].address - functions[i].address
                     ELSE functions[i].size
  IN [n \in { functions[i].name : i \in DOMAIN functions } |->
        LET i == CHOOSE i \in DOMAIN functions :
                   /\ functions[i].name = n
                   /\ \A j \in DOMAIN functions : functions[j].name = n => j <= i
        IN [start |-> functions[i].address, size |-> funcSize(i)]]

\* resolveEntry that starts every object at the beginning of .text.
resolveEntry_startOfText(b) ==
  LET textAddr == textAddrOf(b)
      mainAddr == IF b.isObjectFile THEN findMain(b.file) ELSE Undefined
      functionMap == IF b.isObjectFile THEN buildFunctionMap(b.file, textAddr) ELSE EmptyMap
      useMain == mainAddr # Undefined /\ mainAddr > 0
      noText == b.isObjectFile /\ ~useMain /\ (textAddr = Undefined \/ textAddr = 0)
      entryPoint == IF ~b.isObjectFile THEN b.entryPoint
                    ELSE textAddr
      relocate == Len(b.file.view.relas) > 0 /\ DOMAIN functionMap # {}
      functionBoundaries == IF b.isObjectFile THEN buildFunctionBoundaries(b.file, textAddr)
                            ELSE EmptyMap
      b1 == [b EXCEPT !.mainAddr = mainAddr, !.functionMap = functionMap,
                      !.functionBoundaries = functionBoundaries]
  IN IF noText THEN [b1 EXCEPT !.pc = "aborted", !.error = "No .text section found in object file"]
     ELSE IF entryPoint = 0
       THEN [b1 EXCEPT !.entryPoint = 0, !.pc = "aborted", !.error = "No valid entry point found"]
     ELSE [b1 EXCEPT !.entryPoint = entryPoint, !.pc = "relocs",
                     !.r = IF relocate THEN 1 ELSE Len(b.file.view.relas) + 1]

\* Main lookup, function map and entry point; the relocation loop is entered
\* only with a non-empty .rela.text and a non-empty function map.
resolveEntry(b) ==
  LET textAddr == textAddrOf(b)
      mainAddr == IF b.isObjectFile THEN findMain(b.file) ELSE Undefined
      functionMap == IF b.isObjectFile THEN buildFunctionMap(b.file, textAddr) ELSE EmptyMap
      useMain == mainAddr # Undefined /\ mainAddr > 0
      noText == b.isObjectFile /\ ~useMain /\ (textAddr = Undefined \/ textAddr = 0)
      entryPoint == IF ~b.isObjectFile THEN b.entryPoint
                    ELSE IF useMain THEN Plus(textAddr, mainAddr)
                    ELSE textAddr
      relocate == Len(b.file.view.relas) > 0 /\ DOMAIN functionMap # {}
      functionBoundaries == IF b.isObjectFile THEN buildFunctionBoundaries(b.file, textAddr)
                            ELSE EmptyMap
      b1 == [b EXCEPT !.mainAddr = mainAddr, !.functionMap = functionMap,
                      !.functionBoundaries = functionBoundaries]
  IN IF noText THEN [b1 EXCEPT !.pc = "aborted", !.error = "No .text section found in object file"]
     ELSE IF entryPoint = 0
       THEN [b1 EXCEPT !.entryPoint = 0, !.pc = "aborted", !.error = "No valid entry point found"]
     ELSE [b1 EXCEPT !.entryPoint = entryPoint, !.pc = "relocs",
                     !.r = IF relocate THEN 1 ELSE Len(b.file.view.relas) + 1]

\* DataView.setInt32 and setUint32, little endian: both store the low 32
\* bits of the number, least significant byte first.
LE32(v) == [k \in 1..4 |-> (v \div (256 ^ (k - 1))) % 256]

\* DataView.setBigUint64, little endian, of a number below 2^32.
LE64(v) == [k \in 1..8 |-> IF k <= 4 THEN (v \div (256 ^ (k - 1))) % 256 ELSE 0]

\* The name the relocation loop resolves a symbol index to, '' if none.
relocSymbolName(p, symbolIndex) ==
  LET syms == symbolsOf(p)
  IN IF symbolIndex >= 0 /\ symbolIndex < Len(syms) THEN syms[symbolIndex + 1].name ELSE ""

\* The value a relative relocation stores.
relativeAddr_noInsnSize(targetAddr, patchAddr) == targetAddr - patchAddr

relativeAddr(targetAddr, patchAddr) == targetAddr - (patchAddr + 4)

\* The 4 bytes a relocation stores, with every type outside the relative
\* ones taken for an absolute address.
patchBytes_anyType(relocType, targetAddr, patchAddr) ==
  IF relocType = R_X86_64_PLT32 \/ relocType = R_X86_64_PC32
    THEN LE32(relativeAddr(targetAddr, patchAddr))
  ELSE LE32(targetAddr)

\* The 4 bytes a relocation of a supported type stores, << >> otherwise.
patchBytes(relocType, targetAddr, patchAddr) ==
  IF relocType = R_X86_64_PLT32 \/ relocType = R_X86_64_PC32
    THEN LE32(relativeAddr(targetAddr, patchAddr))
  ELSE IF relocType = R_X86_64_32 THEN LE32(targetAddr)
  ELSE << >>

\* One iteration of the relocation loop, adding the relative value to the
\* byte found at the patched place.
applyRelocation_accumulates(b, rel) ==
  LET symbolName == relocSymbolName(b.file, rel.symbolIndex)
      resolvedName == symbolName # "" /\ symbolName \in DOMAIN b.functionMap
      targetAddr == b.functionMap[symbolName]
      patchAddr == Plus(textAddrOf(b), rel.offset)
      bytes == IF rel.type = R_X86_64_PLT32 \/ rel.type = R_X86_64_PC32
               THEN LE32(ReadByte(b.file.view, b.engine, patchAddr)
                         + relativeAddr(targetAddr, patchAddr))
               ELSE patchBytes(rel.type, targetAddr, patchAddr)
  IN IF resolvedName /\ bytes # << >>
     THEN [b EXCEPT !.engine = mem_write(b.engine, patchAddr, 4, FromBytes(bytes)).engine]
     ELSE b

\* One iteration of the relocation loop; a mem_write that throws is caught.
applyRelocation(b, rel) ==
  LET symbolName == relocSymbolName(b.file, rel.symbolIndex)
      resolvedName == symbolName # "" /\ symbolName \in DOMAIN b.functionMap
      targetAddr == b.functionMap[symbolName]
      patchAddr == Plus(textAddrOf(b), rel.offset)
      bytes == patchBytes(rel.type, targetAddr, patchAddr)
  IN IF resolvedName /\ bytes # << >>
     THEN [b EXCEPT !.engine = mem_write(b.engine, patchAddr, 4, FromBytes(bytes)).engine]
     ELSE b

\* main was found past the start of .text in an object file.
trampolineNeeded(b) == b.isObjectFile /\ b.mainAddr # Undefined /\ b.mainAddr > 0

\* The call environment of main: argc and argv (on the stack in 32-bit
\* mode), the halt trampoline past the stack and its address pushed as the
\* return address.  Nothing here is inside a try block.
setupTrampoline(b) ==
  IF ~trampolineNeeded(b) THEN [b EXCEPT !.pc = "done"]
  ELSE
    LET sp0 == b.engine.sp
        a1 == mem_write(b.engine, sp0 - 4, 4, FromBytes(<<0, 0, 0, 0>>))
        a2 == mem_write(a1.engine, sp0 - 8, 4, FromBytes(<<0, 0, 0, 0>>))
        argsOk == b.is64bit \/ (a1.ok /\ a2.ok)
        e0 == IF b.is64bit THEN b.engine ELSE [a2.engine EXCEPT !.sp = sp0 - 8]
        exitAddr == b.STACK_ADDR + STACK_SIZE + PageSize
        m == mem_map(e0, "exit", exitAddr, PageSize, PROT_ALL)
        h == mem_write(m.engine, exitAddr, 1, FromBytes(<<HLT>>))
        sp == h.engine.sp
        width == IF b.is64bit THEN 8 ELSE 4
        ret == mem_write(h.engine, sp - width, width,
                         FromBytes(IF b.is64bit THEN LE64(exitAddr) ELSE LE32(exitAddr)))
    IN IF argsOk /\ m.ok /\ h.ok /\ ret.ok
       THEN [b EXCEPT !.exitAddr = exitAddr, !.pc = "done",
                      !.engine = [ret.engine EXCEPT !.sp = sp - width]]
       ELSE [b EXCEPT !.pc = "aborted", !.error = "UC_ERR"]

\* The engine as the handler hands it to new UnicornDebugger: the memory it
\* mapped and wrote, the stack pointer it set, the program counter at the
\* entry point, argc and argv of a 64-bit main in rdi and rsi, every other
\* register 0.  `stack` holds the words the program stores while it runs.
\* With it the debugger's run mode and exit breakpoint, and how far the test
\* harness (executeCodeAndGetResult) has come.
startCpu(b) ==
  [on |-> TRUE, view |-> b.file.view, engine |-> b.engine, is64bit |-> b.is64bit,
   entryPoint |-> b.entryPoint, exitAddr |-> b.exitAddr,
   rip |-> b.entryPoint, rsp |-> b.engine.sp, rbp |-> 0, rax |-> 0, rdi |-> 0, rsi |-> 0,
   stack |-> EmptyMap,
   breakpoints |-> IF b.exitAddr # Undefined THEN {b.exitAddr} ELSE {},
   isRunning |-> FALSE, isPaused |-> FALSE, executionCount |-> Undefined,
   lastLog |-> "initialized", harness |-> "initialized", returnValue |-> Undefined,
   user |-> "none", firstRun |-> Undefined]

\* ------------------------------------------------ symbol & boundary resolver
\* Capstone on the byte at position k (1-based): mnemonic, operands and
\* length; length 0 where the bytes are no instruction of the sample code.
decodeAt(bytes, k, is64bit) ==
  LET at(j) == IF j <= Len(bytes) THEN bytes[j] ELSE Undefined
      b == at(k)
  IN IF b = 85 THEN [mnemonic |-> "push", op_str |-> IF is64bit THEN "rbp" ELSE "ebp", size |-> 1]
     ELSE IF b = 93 THEN [mnemonic |-> "pop", op_str |-> IF is64bit THEN "rbp" ELSE "ebp", size |-> 1]
     ELSE IF b = 144 THEN [mnemonic |-> "nop", op_str |-> "", size |-> 1]
     ELSE IF b = 195 THEN [mnemonic |-> "ret", op_str |-> "", size |-> 1]
     ELSE IF b = 137 /\ at(k + 1) = 229
          THEN [mnemonic |-> "mov", op_str |-> "ebp, esp", size |-> 2]
     ELSE IF b = 72 /\ ~is64bit THEN [mnemonic |-> "dec", op_str |-> "eax", size |-> 1]
     ELSE IF b = 72 /\ at(k + 1) = 137 /\ at(k + 2) = 229
          THEN [mnemonic |-> "mov", op_str |-> "rbp, rsp", size |-> 3]
     ELSE IF b = 232 /\ k + 4 <= Len(bytes)
          THEN [mnemonic |-> "call", op_str |-> "rel32", size |-> 5]
     ELSE [mnemonic |-> "", op_str |-> "", size |-> 0]

\* disasm: the instructions from position k on, each with its address;
\* disassembly ends at the first bytes that are no instruction.
RECURSIVE disasmFrom(_, _, _, _)
disasmFrom(bytes, k, is64bit, textBaseAddr) ==
  IF k > Len(bytes) THEN << >>
  ELSE LET d == decodeAt(bytes, k, is64bit)
       IN IF d.size = 0 THEN << >>
          ELSE <<[address |-> textBaseAddr + (k - 1), mnemonic |-> d.mnemonic,
                  op_str |-> d.op_str]>>
               \o disasmFrom(bytes, k + d.size, is64bit, textBaseAddr)

\* Instruction i is push rbp/ebp and instruction i + 1 the mov that sets the
\* frame pointer.
isPrologue(instructions, i) ==
  /\ instructions[i].mnemonic = "push"
  /\ instructions[i].op_str \in {"rbp", "ebp"}
  /\ i + 1 <= Len(instructions)
  /\ instructions[i + 1].mnemonic = "mov"
  /\ instructions[i + 1].op_str \in {"rbp, rsp", "ebp, esp"}

\* The loop of detectFunctionsFromAssembly from instruction i on, functionIndex
\* functions found so far.
RECURSIVE detectFrom(_, _, _, _)
detectFrom(instructions, i, functionIndex, textBaseAddr) ==
  IF i > Len(instructions) THEN << >>
  ELSE IF isPrologue(instructions, i)
       THEN <<[name |-> "func_" \o ToString(functionIndex + 1),
               address |-> instructions[i].address,
               offset |-> instructions[i].address - textBaseAddr]>>
            \o detectFrom(instructions, i + 1, functionIndex + 1, textBaseAddr)
       ELSE detectFrom(instructions, i + 1, functionIndex, textBaseAddr)

\* detectFunctionsFromAssembly: one func_N per prologue of .text, empty
\* without a .text of positive size.
detectFunctionsFromAssembly(p, textBaseAddr) ==
  LET hits == { i \in DOMAIN p.sectionHeaders : p.sectionHeaders[i].name = ".text" }
  IN IF hits = {} THEN << >>
     ELSE LET textSection == p.sectionHeaders[CHOOSE i \in hits : \A j \in hits : i <= j]
          IN IF textSection.size = 0 THEN << >>
             ELSE detectFrom(disasmFrom([k \in 1..textSection.size |->
                                           FileByte(p.view, textSection.offset + k - 1)], 1,
                                        p.elfHeader.class = "ELF64", textBaseAddr),
                             1, 0, textBaseAddr)

\* looksLikeOffset with the limit taken as a small value too.
looksLikeOffset_inclusive(value) == value <= 4096

\* looksLikeOffset: a raw symbol value below 0x1000.
looksLikeOffset(value) == value < 4096

\* The entry pushed for a function symbol.
functionEntry(sym, textBaseAddr) ==
  [name |-> sym.name,
   address |-> IF looksLikeOffset(sym.value) THEN textBaseAddr + sym.value ELSE sym.value,
   offset |-> sym.value]

\* The symbol table extractFunctionSymbols reads: .symtab with .strtab, or
\* without a .symtab .dynsym with .dynstr; found is false if either section
\* of the pair is missing.
symbolTableOf(p) ==
  IF p.view.hasSymtab
  THEN [found |-> p.view.hasStrtab, symbols |-> p.view.symbols]
  ELSE [found |-> p.view.hasDynsym /\ p.view.hasDynstr, symbols |-> p.view.dynSymbols]

\* extractFunctionSymbols: returns the empty list at once without a symbol
\* table, a string table or entries; else the named function symbols sorted
\* by address, and the result of the pattern scan if there is none.
extractFunctionSymbols(p, textBaseAddr) ==
  LET table == symbolTableOf(p)
  IN IF ~table.found \/ Len(table.symbols) = 0 THEN << >>
     ELSE LET keep(sym) == sym.name # "" /\ sym.type = STT_FUNC /\ sym.value >= 0
              pushed == [k \in DOMAIN SelectSeq(table.symbols, keep) |->
                           functionEntry(SelectSeq(table.symbols, keep)[k], textBaseAddr)]
              functions == sortByAddress(pushed)
          IN IF Len(functions) = 0
             THEN detectFunctionsFromAssembly(p, textBaseAddr)
             ELSE functions

\* ----------------------------------------------- compile, load and reset
\* showCompileAnalysis, and the compile branch of autoLoadCompiledFile: the
\* function symbols of a file with a .text section are stored, with the
\* editor text as lastCompiledCode, if there is at least one.
storeFunctionNames(pg, p) ==
  LET hasText == \E i \in DOMAIN p.sectionHeaders : p.sectionHeaders[i].name = ".text"
      functionSymbols == IF hasText THEN extractFunctionSymbols(p, ObjectBase) ELSE << >>
  IN IF Len(functionSymbols) > 0
     THEN [pg EXCEPT !.compiledFunctionNames =
                       [stored |-> TRUE, functions |-> functionSymbols,
                        madeFrom |-> p.view.madeFrom],
                     !.lastCompiledCode = pg.source]
     ELSE pg

\* resetStep2Status without the assignment parsed = null.
resetStep2Status_keepsParsed(pg, p, perf) ==
  LET codeChanged == pg.lastCompiledCode # pg.source
  IN [parsed |-> p,
      page |-> [pg EXCEPT !.runUnicornDisabled = IF perf THEN @ ELSE TRUE,
                          !.compiledFunctionNames = IF codeChanged THEN NoNames ELSE @,
                          !.lastCompiledCode = IF codeChanged THEN pg.source ELSE @]]

\* resetStep2Status: parsed = null, the Initialize button disabled outside
\* performance mode, the stored names cleared if the editor text differs from
\* lastCompiledCode.
resetStep2Status(pg, p, perf) ==
  LET codeChanged == pg.lastCompiledCode # pg.source
  IN [parsed |-> NoParsed,
      page |-> [pg EXCEPT !.runUnicornDisabled = IF perf THEN @ ELSE TRUE,
                          !.compiledFunctionNames = IF codeChanged THEN NoNames ELSE @,
                          !.lastCompiledCode = IF codeChanged THEN pg.source ELSE @]]

\* fullReset: resetStep2Status, then the stored names and code are cleared.
fullReset(pg, p, perf) ==
  LET r == resetStep2Status(pg, p, perf)
  IN [parsed |-> r.parsed,
      page |-> [r.page EXCEPT !.compiledFunctionNames = NoNames, !.lastCompiledCode = NoCode]]

\* The file has a .text section the load handlers disassemble.
hasCode(p) ==
  \E i \in DOMAIN p.sectionHeaders :
    /\ p.sectionHeaders[i].name = ".text"
    /\ p.sectionHeaders[i].size > 0
    /\ p.sectionHeaders[i].offset > 0

\* autoLoadCompiledFile: `parsed` is assigned if parseELF returns; in compile
\* mode the names are stored, in link mode stored names label the code in
\* place of the symbols of the file; the Initialize button is enabled.
autoLoadCompiledFile(pg, p, binaryData, compileMode) ==
  LET res == parseELF(binaryData)
      pg1 == IF compileMode = "compile" THEN storeFunctionNames(pg, res.value) ELSE pg
      useStored == compileMode = "link" /\ hasCode(res.value) /\ pg1.compiledFunctionNames.stored
  IN IF ~res.ok
     THEN [ok |-> FALSE, parsed |-> p, page |-> [pg EXCEPT !.lastLoad = "failed"]]
     ELSE [ok |-> TRUE, parsed |-> res.value,
           page |-> [pg1 EXCEPT !.runUnicornDisabled = FALSE, !.lastLoad = "loaded",
                                !.applied = IF useStored THEN pg1.compiledFunctionNames
                                            ELSE NoNames,
                                !.appliedTo = IF useStored THEN binaryData.madeFrom
                                              ELSE NoCode]]

\* The fileInput change handler: `parsed` is assigned if parseELF returns,
\* the names are stored, the Initialize button is enabled outside
\* performance mode; an error is only displayed.
uploadFile(pg, p, buf, perf) ==
  LET res == parseELF(buf)
  IN IF ~res.ok
     THEN [ok |-> FALSE, parsed |-> p, page |-> [pg EXCEPT !.lastLoad = "failed"]]
     ELSE [ok |-> TRUE, parsed |-> res.value,
           page |-> [storeFunctionNames(pg, res.value) EXCEPT
                       !.runUnicornDisabled = IF perf THEN @ ELSE FALSE,
                       !.lastLoad = "loaded", !.applied = NoNames, !.appliedTo = NoCode]]

\* -------------------------------------------------- actions of the builder
BuildInit ==
  /\ dbg = [i \in Ids |-> NoDebugger]
  /\ current = 0
  /\ parsed = NoParsed
  /\ ui = [stepDisabled |-> TRUE, resetDisabled |-> TRUE, runDisabled |-> TRUE,
           runHidden |-> FALSE, stopHidden |-> TRUE]
  /\ perfMode = FALSE
  /\ events = 0
  /\ ev = NoEvent
  /\ hist = [i \in Ids |-> NoHist]
  /\ stale = {}
  /\ build = NoBuild
  /\ resolved = NoResolved
  /\ page = NoPage
  /\ cpu = NoCpu

\* The event record of a load: the first bytes of the buffer and the error
\* the handler caught.
LoadEvent(who, buf, error) ==
  [op |-> "load", who |-> who, stepped |-> FALSE, executed |-> FALSE, hookAtBp |-> FALSE,
   hookStop |-> FALSE, err |-> error, magic |-> buf.magic]

\* The fileInput change handler on a buffer: `parsed` is assigned only if
\* parseELF returns.  A well-formed buffer replaces
\* `parsed` as a whole, so a behaviour loads one of them, and before and
\* after it any number of buffers that parseELF rejects.
LoadFile ==
  /\ build.pc \in {"idle", "done", "aborted"}
  /\ \E buf \in IF parsed = NoParsed THEN Buffers ELSE ForeignBuffers :
       LET up == uploadFile(page, parsed, buf, perfMode)
       IN /\ parsed' = up.parsed
          /\ page' = up.page
          /\ ev' = LoadEvent(current, buf, parseELF(buf).error)
  /\ build' = NoBuild
  /\ stale' = stale \cup (IF current > 0 THEN {current} ELSE {})
  /\ UNCHANGED <<dbg, current, ui, perfMode, events, hist, resolved, cpu>>

\* The runUnicorn click: destructuring `parsed` throws before any file was
\* loaded, else the handler starts with a new engine.
RunUnicornClick ==
  /\ current < MaxDebuggers
  /\ ~page.runUnicornDisabled
  /\ build.pc \in {"idle", "done", "aborted"}
  /\ build' = IF parsed = NoParsed
              THEN [startBuild(parsed) EXCEPT !.pc = "aborted", !.error = "TypeError"]
              ELSE startBuild(parsed)
  /\ ev' = Event("runUnicorn", current)
  /\ UNCHANGED <<dbg, current, parsed, ui, perfMode, events, hist, stale, resolved, page, cpu>>

MapSection ==
  /\ build.pc = "sections"
  /\ build.i <= Len(build.file.sectionHeaders)
  /\ build' = [mapSection(build, build.file.sectionHeaders[build.i]) EXCEPT !.i = @ + 1]
  /\ UNCHANGED <<dbg, current, parsed, ui, perfMode, events, ev, hist, stale, resolved, page, cpu>>

SetupStack ==
  /\ build.pc = "sections"
  /\ build.i > Len(build.file.sectionHeaders)
  /\ build' = setupStack(build)
  /\ UNCHANGED <<dbg, current, parsed, ui, perfMode, events, ev, hist, stale, resolved, page, cpu>>

ResolveEntry ==
  /\ build.pc = "entry"
  /\ build' = resolveEntry(build)
  /\ UNCHANGED <<dbg, current, parsed, ui, perfMode, events, ev, hist, stale, resolved, page, cpu>>

ApplyRelocation ==
  /\ build.pc = "relocs"
  /\ build.r <= Len(build.file.view.relas)
  /\ build' = [applyRelocation(build, build.file.view.relas[build.r]) EXCEPT !.r = @ + 1]
  /\ UNCHANGED <<dbg, current, parsed, ui, perfMode, events, ev, hist, stale, resolved, page, cpu>>

\* The end of the handler: the trampoline, then the new UnicornDebugger with
\* its exit breakpoint and the enabled controls.
CreateDebugger ==
  /\ build.pc = "relocs"
  /\ build.r > Len(build.file.view.relas)
  /\ LET b == setupTrampoline(build)
         fresh == NewDebugger(IF b.isObjectFile THEN "object" ELSE "exec", EntryPoint)
         d == IF b.exitAddr # Undefined THEN addBreakpoint(fresh, ExitAddr) ELSE fresh
     IN /\ build' = b
        /\ IF b.pc = "done"
           THEN /\ dbg' = [dbg EXCEPT ![current + 1] = d]
                /\ current' = current + 1
                /\ ui' = [ui EXCEPT !.stepDisabled = FALSE, !.runDisabled = FALSE,
                                    !.resetDisabled = FALSE]
                /\ stale' = stale \cup (IF current > 0 THEN {current} ELSE {})
           ELSE UNCHANGED <<dbg, current, ui, stale>>
        /\ cpu' = IF b.pc = "done" THEN startCpu(b) ELSE cpu
  /\ UNCHANGED <<parsed, perfMode, events, ev, hist, resolved, page>>

BuildNext ==
  \/ LoadFile
  \/ RunUnicornClick
  \/ MapSection
  \/ SetupStack
  \/ ResolveEntry
  \/ ApplyRelocation
  \/ CreateDebugger

BuildSpec == BuildInit /\ [][BuildNext]_vars

\* ------------------------------------------------- actions of the session
\* Editor texts: none, a program of one function, a program of two.
Sources == {"", "int main()", "int helper() int main()"}

\* Exit codes of the compiler.
ExitCodes == {0, 1}

\* The code of one function: push rbp; mov rbp, rsp; pop rbp; ret.
FunctionCode == <<85, 72, 137, 229, 93, 195>>

\* The code of a function that calls another: push rbp; mov rbp, rsp; call;
\* pop rbp; ret.
CallerCode == <<85, 72, 137, 229, 232, 0, 0, 0, 0, 93, 195>>

\* The file the compiler writes for a source text: an object with .text at
\* address 0 and a relocation for the call of helper, or a linked executable
\* that also holds the appended _start.
Artifact(source, mode) ==
  LET two == source = "int helper() int main()"
      code == IF two THEN FunctionCode \o CallerCode ELSE FunctionCode
      at == IF mode = "link" THEN 4198400 ELSE 0
      own == IF two THEN <<FuncSymbol("helper", at), FuncSymbol("main", at + 6)>>
             ELSE <<FuncSymbol("main", at)>>
  IN IF mode = "link"
     THEN [ResolverBuffer(code \o FunctionCode, at) EXCEPT
             !.hasSymtab = TRUE, !.hasStrtab = TRUE, !.madeFrom = source,
             !.entry = at + Len(code),
             !.symbols = <<NullSymbol>> \o own \o <<FuncSymbol("_start", at + Len(code))>>]
     ELSE [ResolverBuffer(code, at) EXCEPT
             !.hasSymtab = TRUE, !.hasStrtab = TRUE, !.madeFrom = source,
             !.symbols = <<NullSymbol>> \o own,
             !.relas = IF two THEN <<[offset |-> 11, symbolIndex |-> 1,
                                      type |-> R_X86_64_PLT32]>>
                       ELSE << >>]

\* The files a user uploads: objects compiled earlier, a file of another kind.
Uploads ==
  { Artifact(source, "compile") : source \in Sources \ {""} }
  \cup { [PlainBuffer(SmallObjectSections) EXCEPT !.magic = <<77, 90, 144, 0>>] }

SessionInit ==
  /\ dbg = [i \in Ids |-> NoDebugger]
  /\ current = 0
  /\ parsed = NoParsed
  /\ ui = [stepDisabled |-> TRUE, resetDisabled |-> TRUE, runDisabled |-> TRUE,
           runHidden |-> FALSE, stopHidden |-> TRUE]
  /\ perfMode \in BOOLEAN
  /\ events = 0
  /\ ev = NoEvent
  /\ hist = [i \in Ids |-> NoHist]
  /\ stale = {}
  /\ build = NoBuild
  /\ resolved = NoResolved
  /\ page \in { [NoPage EXCEPT !.runUnicornDisabled = d] : d \in BOOLEAN }
  /\ cpu = NoCpu

\* The user changes the text in the editor.
EditSource ==
  /\ build.pc \in {"idle", "done", "aborted"}
  /\ \E source \in Sources \ {page.source} : page' = [page EXCEPT !.source = source]
  /\ ev' = Event("edit", current)
  /\ UNCHANGED <<dbg, current, parsed, ui, perfMode, events, hist, stale, build, resolved, cpu>>

\* quickCompileExact / compileFromSource on a non-empty text: the reset, the
\* compiler run, and on exit code 0 the load of the file it wrote.
Compile ==
  /\ build.pc \in {"idle", "done", "aborted"}
  /\ page.source # ""
  /\ \E mode \in {"compile", "link"}, result \in ExitCodes :
       LET r == resetStep2Status(page, parsed, perfMode)
           l == IF result = 0
                THEN autoLoadCompiledFile(r.page, r.parsed, Artifact(page.source, mode), mode)
                ELSE [ok |-> FALSE, parsed |-> r.parsed,
                      page |-> [r.page EXCEPT !.lastLoad = "none"]]
       IN /\ parsed' = l.parsed
          /\ page' = [l.page EXCEPT !.exitCode = result, !.compiled = TRUE]
          /\ ev' = Event(mode, current)
  /\ build' = NoBuild
  /\ stale' = stale \cup (IF current > 0 THEN {current} ELSE {})
  /\ UNCHANGED <<dbg, current, ui, perfMode, events, hist, resolved, cpu>>

\* The fileInput change handler on an uploaded file.
UploadFile ==
  /\ build.pc \in {"idle", "done", "aborted"}
  /\ \E buf \in Uploads :
       LET up == uploadFile(page, parsed, buf, perfMode)
       IN /\ parsed' = up.parsed
          /\ page' = up.page
          /\ ev' = LoadEvent(current, buf, parseELF(buf).error)
  /\ build' = NoBuild
  /\ stale' = stale \cup (IF current > 0 THEN {current} ELSE {})
  /\ UNCHANGED <<dbg, current, ui, perfMode, events, hist, resolved, cpu>>

\* clearOutput: the full reset.
ClearOutput ==
  /\ build.pc \in {"idle", "done", "aborted"}
  /\ LET r == fullReset(page, parsed, perfMode)
     IN /\ parsed' = r.parsed
        /\ page' = [r.page EXCEPT !.compiled = FALSE, !.exitCode = 0, !.lastLoad = "none"]
  /\ ev' = Event("clear", current)
  /\ build' = NoBuild
  /\ UNCHANGED <<dbg, current, ui, perfMode, events, hist, stale, resolved, cpu>>

SessionNext ==
  \/ EditSource
  \/ Compile
  \/ UploadFile
  \/ ClearOutput
  \/ RunUnicornClick
  \/ MapSection
  \/ SetupStack
  \/ ResolveEntry
  \/ ApplyRelocation
  \/ CreateDebugger

SessionSpec == SessionInit /\ [][SessionNext]_vars

\* ------------------------------------------------ a program on the engine
\* this.maxInstructions of runUntilHalt.
InstructionLimit == 10000

\* The code of `int add(int a, int b) { return a + b; }` for x86-64: push
\* rbp; mov rbp, rsp; mov eax, edi; add eax, esi; pop rbp; ret.
AddCode == <<85, 72, 137, 229, 137, 248, 1, 240, 93, 195>>

\* The code of `int main() { return add(x, y); }`: push rbp; mov rbp, rsp;
\* mov edi, x; mov esi, y; call add (operand left 0 for the relocation);
\* pop rbp; ret.
MainCode(x, y) ==
  <<85, 72, 137, 229, 191>> \o LE32(x) \o <<190>> \o LE32(y) \o <<232, 0, 0, 0, 0, 93, 195>>

\* The relocatable object of the two functions: add at 0, main after it, and
\* one entry of .rela.text for the operand of the call.
AddProgram(x, y) ==
  [ResolverBuffer(AddCode \o MainCode(x, y), 0) EXCEPT
     !.hasSymtab = TRUE, !.hasStrtab = TRUE, !.madeFrom = "int add() int main()",
     !.symbols = <<NullSymbol, FuncSymbol("add", 0), FuncSymbol("main", Len(AddCode))>>,
     !.relas = <<[offset |-> Len(AddCode) + 15, symbolIndex |-> 1, type |-> R_X86_64_PLT32]>>]

\* The code of `int main() { return x; }`: push rbp; mov rbp, rsp;
\* mov eax, x; pop rbp; ret.
ReturnCode(x) == <<85, 72, 137, 229, 184>> \o LE32(x) \o <<93, 195>>

\* The relocatable object of that one function, main at 0.
ReturnProgram(x) ==
  [ResolverBuffer(ReturnCode(x), 0) EXCEPT
     !.hasSymtab = TRUE, !.hasStrtab = TRUE, !.madeFrom = "int main()",
     !.symbols = <<NullSymbol, FuncSymbol("main", 0)>>]

\* The values the programs are compiled with.
Operands == {0, 15, 25}

Programs ==
  { AddProgram(x, y) : x \in Operands, y \in Operands } \cup { ReturnProgram(x) : x \in Operands }

\* The arguments main passes to add, as the file holds them.
ArgumentsOf(view) == <<view.text[Len(AddCode) + 6], view.text[Len(AddCode) + 11]>>

\* What main of the program returns.
MainReturns(view) ==
  IF view.madeFrom = "int main()" THEN view.text[6]
  ELSE ArgumentsOf(view)[1] + ArgumentsOf(view)[2]

\* The 8-byte word at address a: one the program stored, else the bytes the
\* handler wrote (all of them below 2^31).
readWord(m, a) ==
  IF a \in DOMAIN m.stack THEN m.stack[a] ELSE ReadInt32(m.view, m.engine, a)

\* The engine carries out the instruction at rip: the registers and stack
\* after it, or the error it raises.  Operand values stay below 2^31, so the
\* 32-bit results equal the sums.
execute(m) ==
  LET rip == m.rip
      byte(k) == ReadByte(m.view, m.engine, rip + k)
      done(n) == [err |-> "none", cpu |-> n]
      push(v, next) ==
        IF Mapped(m.engine, m.rsp - 8)
        THEN done([m EXCEPT !.rsp = @ - 8, !.stack = MapSet(@, m.rsp - 8, v), !.rip = next])
        ELSE [err |-> "UC_ERR_WRITE_UNMAPPED", cpu |-> m]
      unmappedRead == [err |-> "UC_ERR_READ_UNMAPPED", cpu |-> m]
  IN IF ~Mapped(m.engine, rip) THEN [err |-> "UC_ERR_FETCH_UNMAPPED", cpu |-> m]
     ELSE IF byte(0) = 85 THEN push(m.rbp, rip + 1)
     ELSE IF byte(0) = 72 /\ byte(1) = 137 /\ byte(2) = 229
       THEN done([m EXCEPT !.rbp = m.rsp, !.rip = rip + 3])
     ELSE IF byte(0) = 191
       THEN done([m EXCEPT !.rdi = ReadInt32(m.view, m.engine, rip + 1), !.rip = rip + 5])
     ELSE IF byte(0) = 190
       THEN done([m EXCEPT !.rsi = ReadInt32(m.view, m.engine, rip + 1), !.rip = rip + 5])
     ELSE IF byte(0) = 184
       THEN done([m EXCEPT !.rax = ReadInt32(m.view, m.engine, rip + 1), !.rip = rip + 5])
     ELSE IF byte(0) = 137 /\ byte(1) = 248
       THEN done([m EXCEPT !.rax = m.rdi, !.rip = rip + 2])
     ELSE IF byte(0) = 1 /\ byte(1) = 240
       THEN done([m EXCEPT !.rax = m.rax + m.rsi, !.rip = rip + 2])
     ELSE IF byte(0) = 232
       THEN push(rip + 5, rip + 5 + ReadInt32(m.view, m.engine, rip + 1))
     ELSE IF byte(0) = 93
       THEN IF Mapped(m.engine, m.rsp)
            THEN done([m EXCEPT !.rbp = readWord(m, m.rsp), !.rsp = @ + 8, !.rip = rip + 1])
            ELSE unmappedRead
     ELSE IF byte(0) = 195
       THEN IF Mapped(m.engine, m.rsp)
            THEN done([m EXCEPT !.rip = readWord(m, m.rsp), !.rsp = @ + 8])
            ELSE unmappedRead
     ELSE [err |-> "UC_ERR_INSN_INVALID", cpu |-> m]

\* engine.mem_read(address, 16) returns.
readable(m, address) == Mapped(m.engine, address) /\ Mapped(m.engine, address + 15)

\* stepInstruction() on this engine.  At a breakpoint the hook clears the
\* run mode and returns false; `honoured` tells whether the engine then
\* stops before the instruction.
cpuStep(m, honoured) ==
  LET m0 == [m EXCEPT !.isPaused = FALSE]
      atBreakpoint == m0.rip \in m0.breakpoints
      hooked == IF atBreakpoint THEN [m0 EXCEPT !.isPaused = TRUE, !.isRunning = FALSE]
                ELSE m0
      r == execute(hooked)
      failed(n, e) == [n EXCEPT !.isPaused = TRUE, !.isRunning = FALSE, !.lastLog = e]
  IN IF ~readable(m0, m0.rip) THEN failed(m0, "UC_ERR_READ_UNMAPPED")
     ELSE IF execute(m0).err = "UC_ERR_INSN_INVALID" THEN failed(m0, "UC_ERR_INSN_INVALID")
     ELSE IF atBreakpoint /\ honoured THEN hooked
     ELSE IF r.err = "none" THEN r.cpu
     ELSE failed(r.cpu, r.err)

\* isHaltInstruction(address) on this engine.
cpuIsHalt(m, address) ==
  readable(m, address) /\ ReadByte(m.view, m.engine, address) = HLT

\* continueExecution() on this engine.
cpuContinue(m, honoured) ==
  IF ~m.isRunning \/ m.isPaused THEN m
  ELSE IF m.executionCount >= InstructionLimit
    THEN [m EXCEPT !.isRunning = FALSE, !.isPaused = TRUE, !.lastLog = "limit"]
  ELSE IF cpuIsHalt(m, m.rip)
    THEN [m EXCEPT !.isRunning = FALSE, !.isPaused = TRUE, !.lastLog = "hlt"]
  ELSE [cpuStep(m, honoured) EXCEPT !.executionCount = @ + 1]

\* runUntilHalt() on this engine.
cpuRunUntilHalt(m, honoured) ==
  IF m.isRunning THEN m
  ELSE cpuContinue([m EXCEPT !.isRunning = TRUE, !.isPaused = FALSE, !.executionCount = 0,
                             !.lastLog = "running"], honoured)

\* reset() on this engine: the program counter only.
cpuReset(m) ==
  [m EXCEPT !.rip = m.entryPoint, !.isRunning = FALSE, !.isPaused = FALSE,
            !.executionCount = 0, !.lastLog = "reset"]

\* The page after one of the programs was compiled and loaded.
ProgramInit ==
  /\ dbg = [i \in Ids |-> NoDebugger]
  /\ current = 0
  /\ \E program \in Programs : parsed = parseELF(program).value
  /\ ui = [stepDisabled |-> TRUE, resetDisabled |-> TRUE, runDisabled |-> TRUE,
           runHidden |-> FALSE, stopHidden |-> TRUE]
  /\ perfMode = FALSE
  /\ events = 0
  /\ ev = NoEvent
  /\ hist = [i \in Ids |-> NoHist]
  /\ stale = {}
  /\ build = NoBuild
  /\ resolved = NoResolved
  /\ page = [NoPage EXCEPT !.source = parsed.view.madeFrom, !.compiled = TRUE,
                           !.lastLoad = "loaded"]
  /\ cpu = NoCpu

\* The harness, 500 ms after its click on Initialize: the click on Reset.
HarnessReset ==
  /\ cpu.on /\ cpu.harness = "initialized"
  /\ build.pc = "done"
  /\ cpu' = [(IF ui.resetDisabled THEN cpu ELSE cpuReset(cpu)) EXCEPT !.harness = "reset"]
  /\ ev' = Event("reset", current)
  /\ UNCHANGED <<dbg, current, parsed, ui, perfMode, events, hist, stale, build, resolved, page>>

\* The harness, 200 ms later: the click on Run, or its rejection with the
\* Run button disabled.
HarnessRun ==
  /\ cpu.on /\ cpu.harness = "reset"
  /\ \E honoured \in BOOLEAN :
       cpu' = IF ui.runDisabled THEN [cpu EXCEPT !.harness = "rejected"]
              ELSE [cpuRunUntilHalt(cpu, honoured) EXCEPT !.harness = "polling"]
  /\ ev' = Event("run", current)
  /\ UNCHANGED <<dbg, current, parsed, ui, perfMode, events, hist, stale, build, resolved, page>>

\* The timer callback of continueExecution.
ContinueProgram ==
  /\ cpu.on /\ cpu.isRunning /\ ~cpu.isPaused
  /\ \E honoured \in BOOLEAN : cpu' = cpuContinue(cpu, honoured)
  /\ ev' = Event("timer", current)
  /\ UNCHANGED <<dbg, current, parsed, ui, perfMode, events, hist, stale, build, resolved, page>>

\* checkCompletion of the harness once the debugger is no longer running:
\* the promise resolves with the accumulator.
HarnessCheck ==
  /\ cpu.on /\ cpu.harness = "polling" /\ ~cpu.isRunning
  /\ cpu' = [cpu EXCEPT !.harness = "resolved", !.returnValue = cpu.rax]
  /\ ev' = Event("check", current)
  /\ UNCHANGED <<dbg, current, parsed, ui, perfMode, events, hist, stale, build, resolved, page>>

\* The timeout callback of the harness, before the promise is settled: it
\* stops a debugger that is running and rejects.
HarnessTimeout ==
  /\ cpu.on /\ cpu.harness \in {"initialized", "reset", "polling"}
  /\ cpu' = [(IF cpu.isRunning
              THEN [cpu EXCEPT !.isRunning = FALSE, !.isPaused = TRUE, !.lastLog = "stopped"]
              ELSE cpu) EXCEPT !.harness = "rejected"]
  /\ ev' = Event("timeout", current)
  /\ UNCHANGED <<dbg, current, parsed, ui, perfMode, events, hist, stale, build, resolved, page>>

\* The resetBtn click handler, when the user clicks it after the harness
\* has its value: how the run before it ended is kept in firstRun.
ResetProgram ==
  /\ cpu.on /\ cpu.harness = "resolved" /\ cpu.user = "none"
  /\ ~ui.resetDisabled
  /\ cpu' = [cpuReset(cpu) EXCEPT !.user = "reset",
                                  !.firstRun = [lastLog |-> cpu.lastLog, rip |-> cpu.rip,
                                                rax |-> cpu.rax]]
  /\ ev' = Event("reset", current)
  /\ UNCHANGED <<dbg, current, parsed, ui, perfMode, events, hist, stale, build, resolved, page>>

\* The runBtn click handler, when the user clicks it after that Reset.
RunProgram ==
  /\ cpu.on /\ cpu.user = "reset"
  /\ ~ui.runDisabled
  /\ \E honoured \in BOOLEAN : cpu' = [cpuRunUntilHalt(cpu, honoured) EXCEPT !.user = "run"]
  /\ ev' = Event("run", current)
  /\ UNCHANGED <<dbg, current, parsed, ui, perfMode, events, hist, stale, build, resolved, page>>

ProgramNext ==
  \/ RunUnicornClick
  \/ MapSection
  \/ SetupStack
  \/ ResolveEntry
  \/ ApplyRelocation
  \/ CreateDebugger
  \/ HarnessReset
  \/ HarnessRun
  \/ ContinueProgram
  \/ HarnessCheck
  \/ HarnessTimeout
  \/ ResetProgram
  \/ RunProgram

ProgramSpec == ProgramInit /\ [][ProgramNext]_vars

\* ------------------------------------------------ properties of the builder
\* The little-endian value of the 4 bytes the engine holds at address a.
ReadLE32(buf, engine, a) ==
  ReadByte(buf, engine, a) + 256 * ReadByte(buf, engine, a + 1)
  + 65536 * ReadByte(buf, engine, a + 2) + 16777216 * ReadByte(buf, engine, a + 3)

\* The handler ran to its end on a file it treats as a relocatable object.
ObjectBuilt == build.pc = "done" /\ build.isObjectFile

\* C11: every relocatable object that was initialized has the trampoline
\* page mapped one page past the stack, the halt opcode 0xF4 at its first
\* byte, and the trampoline address on top of the stack as return address,
\* whether main lies at offset 0, further on, or is missing.
TrampolineForEveryObject ==
  ObjectBuilt =>
    LET exitAddr == build.STACK_ADDR + STACK_SIZE + PageSize
    IN /\ [addr |-> exitAddr, size |-> PageSize] \in build.engine.regions
       /\ ReadByte(build.file.view, build.engine, exitAddr) = HLT
       /\ ReadLE32(build.file.view, build.engine, build.engine.sp) = exitAddr

\* The part of C11 the handler does implement: with main past the start of
\* .text the trampoline is set up as described.
TrampolineWhenMainFound ==
  (ObjectBuilt /\ trampolineNeeded(build)) => TrampolineForEveryObject

\* An object whose main is its first function was initialized.
BuiltWithMainAtZero == ObjectBuilt /\ build.mainAddr = 0

\* An object with main further on was initialized and got its trampoline.
BuiltWithTrampoline == ObjectBuilt /\ build.exitAddr # Undefined

\* The stack of a linked executable has been placed.
ExecStackPlaced == build.pc \in {"entry", "relocs", "done"} /\ ~build.isObjectFile

\* The regions the engine mapped for sections.
SectionRegions ==
  { [addr |-> build.engine.maps[k].addr, size |-> build.engine.maps[k].size] :
      k \in { j \in DOMAIN build.engine.maps :
                build.engine.maps[j].ok /\ build.engine.maps[j].name \notin {"stack", "exit"} } }

StackClearOfSections ==
  \A reg \in SectionRegions : ~Overlaps(build.STACK_ADDR, STACK_SIZE, reg.addr, reg.size)

\* C12 as stated: for every linked executable the stack base lies strictly
\* above the end address of every PT_LOAD segment, and the 64 KiB stack
\* region overlaps no mapped section region.
StackAboveEverySegment ==
  ExecStackPlaced =>
    /\ \A k \in DOMAIN build.file.programHeaders :
         build.file.programHeaders[k].type = PT_LOAD
           => build.STACK_ADDR > build.file.programHeaders[k].vaddr
                                 + build.file.programHeaders[k].memsz
    /\ StackClearOfSections

\* C12, amended: for every linked executable the stack base lies strictly
\* above the end address of every PT_LOAD segment that occupies memory
\* (memsz > 0), and the 64 KiB stack region overlaps no mapped section region.
StackAboveLoadedSegments ==
  ExecStackPlaced =>
    /\ \A k \in DOMAIN build.file.programHeaders :
         (build.file.programHeaders[k].type = PT_LOAD /\ build.file.programHeaders[k].memsz > 0)
           => build.STACK_ADDR > build.file.programHeaders[k].vaddr
                                 + build.file.programHeaders[k].memsz
    /\ StackClearOfSections

\* An executable was initialized whose highest address is the end of a
\* PT_LOAD segment, past every section.
StackPlacedAboveSegment ==
  /\ build.pc = "done" /\ ~build.isObjectFile
  /\ SectionRegions # {}
  /\ \E k \in DOMAIN build.file.programHeaders :
       /\ build.file.programHeaders[k].type = PT_LOAD
       /\ build.file.programHeaders[k].memsz > 0
       /\ \A reg \in SectionRegions :
            reg.addr + reg.size < build.file.programHeaders[k].vaddr

\* The file is a relocatable object: every section to load has address 0.
Relocatable(p) ==
  /\ \E i \in DOMAIN p.sectionHeaders :
       HasBit(p.sectionHeaders[i].flags, SHF_ALLOC) /\ p.sectionHeaders[i].size > 0
  /\ \A i \in DOMAIN p.sectionHeaders :
       (HasBit(p.sectionHeaders[i].flags, SHF_ALLOC) /\ p.sectionHeaders[i].size > 0)
         => p.sectionHeaders[i].addr = 0

\* The mem_map requests the builder made for sections, by position in the log.
SectionRequests ==
  { k \in DOMAIN build.engine.maps : build.engine.maps[k].name \notin {"stack", "exit"} }

\* The section header with the given name.
SectionNamed(p, name) ==
  p.sectionHeaders[CHOOSE i \in DOMAIN p.sectionHeaders : p.sectionHeaders[i].name = name]

\* C13: while a relocatable object is built, the page ranges assigned to
\* distinct sections are pairwise disjoint and each is mapped, neither the
\* stack nor the trampoline page overlaps any of them, and the address
\* recorded under a section's name is the address its bytes were written to.
ObjectLayoutDisjoint ==
  (build.pc # "idle" /\ Relocatable(build.file)) =>
    LET maps == build.engine.maps
    IN /\ \A j, k \in SectionRequests :
            j # k => ~Overlaps(maps[j].addr, maps[j].size, maps[k].addr, maps[k].size)
       /\ \A k \in SectionRequests : maps[k].ok
       /\ build.STACK_ADDR # Undefined =>
            \A k \in SectionRequests :
              ~Overlaps(build.STACK_ADDR, STACK_SIZE, maps[k].addr, maps[k].size)
       /\ build.exitAddr # Undefined =>
            /\ ~Overlaps(build.exitAddr, PageSize, build.STACK_ADDR, STACK_SIZE)
            /\ \A k \in SectionRequests :
                 ~Overlaps(build.exitAddr, PageSize, maps[k].addr, maps[k].size)
       /\ \A name \in DOMAIN build.sectionAddresses :
            \E w \in DOMAIN build.engine.writes :
              /\ build.engine.writes[w].addr = build.sectionAddresses[name]
              /\ build.engine.writes[w].len = SectionNamed(build.file, name).size
              /\ build.engine.writes[w].src = FromFile(SectionNamed(build.file, name).offset)

\* A relocatable object with two loaded sections and the trampoline was built.
TwoSectionsAndTrampoline ==
  /\ build.pc = "done" /\ Relocatable(build.file)
  /\ Cardinality(DOMAIN build.sectionAddresses) = 2
  /\ build.exitAddr # Undefined

\* C14: during one load the builder never asks the engine to map a page
\* range that overlaps a range it has mapped before; a section whose page
\* range intersects an earlier one is skipped.
NoOverlappingMapRequest ==
  build.pc # "idle" =>
    \A j, k \in DOMAIN build.engine.maps :
      (j < k /\ build.engine.maps[j].ok)
        => ~Overlaps(build.engine.maps[j].addr, build.engine.maps[j].size,
                     build.engine.maps[k].addr, build.engine.maps[k].size)

\* What the handler does guarantee: a section whose page range is exactly
\* that of an earlier mapped section is skipped without a second request.
NoRepeatedMapRequest ==
  build.pc # "idle" =>
    \A j, k \in DOMAIN build.engine.maps :
      (j < k /\ build.engine.maps[j].ok)
        => ~(/\ build.engine.maps[j].addr = build.engine.maps[k].addr
             /\ build.engine.maps[j].size = build.engine.maps[k].size)

\* The step is one iteration of the relocation loop.
RelocationStep == build.pc = "relocs" /\ build'.pc = "relocs" /\ build'.r = build.r + 1

\* The iteration stored a patch.
PatchWritten == RelocationStep /\ Len(build'.engine.writes) = Len(build.engine.writes) + 1

\* Memory around the code, the data and the patched place.
ProbeAddrs(b, patchAddr) ==
  { textAddrOf(b) + k : k \in -1..20 } \cup { textAddrOf(b) + PageSize + k : k \in -1..8 }
  \cup { patchAddr + k : k \in -4..7 }

\* C15: a relocation step that patches stores at textBase + offset the
\* little-endian signed 32-bit value target - (patch + 4) for the relative
\* types and the little-endian unsigned 32-bit target for the absolute type,
\* and changes no byte outside these 4.
RelocationEncoding ==
  [][PatchWritten =>
       LET rel == build.file.view.relas[build.r]
           targetAddr == build.functionMap[relocSymbolName(build.file, rel.symbolIndex)]
           patchAddr == textAddrOf(build) + rel.offset
       IN /\ rel.type \in {R_X86_64_PC32, R_X86_64_PLT32} =>
               ReadInt32(build.file.view, build'.engine, patchAddr) = targetAddr - (patchAddr + 4)
          /\ rel.type = R_X86_64_32 =>
               ReadLE32(build.file.view, build'.engine, patchAddr) = targetAddr
          /\ rel.type \in {R_X86_64_PC32, R_X86_64_PLT32, R_X86_64_32}
          /\ \A a \in ProbeAddrs(build, patchAddr) \ (patchAddr .. patchAddr + 3) :
               ReadByte(build.file.view, build'.engine, a)
                 = ReadByte(build.file.view, build.engine, a)]_vars

\* The patches stored in the sections of an object, by position in the log
\* of writes.
Patches ==
  { w \in DOMAIN build.engine.writes : /\ ~build.engine.writes[w].src.file
                                       /\ build.engine.writes[w].addr < build.baseAddr }

\* A backward call (negative value) and a forward reference (the value 3)
\* have been patched into the code.
PatchedBothDirections ==
  /\ build.pc = "relocs"
  /\ \E w \in Patches : build.engine.writes[w].src.bytes[4] = 255
  /\ \E w \in Patches : build.engine.writes[w].src.bytes = <<3, 0, 0, 0>>

\* The step handles a relative relocation equal to the entry before it.
RepeatedRelativeStep ==
  /\ RelocationStep
  /\ build.r > 1
  /\ build.file.view.relas[build.r] = build.file.view.relas[build.r - 1]
  /\ build.file.view.relas[build.r].type \in {R_X86_64_PC32, R_X86_64_PLT32}

\* C16: patching a relative relocation a second time with the same target
\* and patch address leaves in memory the bytes the first patch left.
PatchIdempotent ==
  [][RepeatedRelativeStep =>
       \A a \in ProbeAddrs(build, textAddrOf(build) + build.file.view.relas[build.r].offset) :
         ReadByte(build.file.view, build'.engine, a) = ReadByte(build.file.view, build.engine, a)]_vars

\* The same relative relocation has been patched twice.
PatchedTwice ==
  /\ build.pc = "relocs" /\ build.r = 3
  /\ build.file.view.relas[1] = build.file.view.relas[2]
  /\ build.file.view.relas[1].type = R_X86_64_PLT32
  /\ Cardinality(Patches) = 2

\* The entry names a function symbol of the symbol table.
NamesFunction(p, rel) ==
  /\ rel.symbolIndex < Len(symbolsOf(p))
  /\ symbolsOf(p)[rel.symbolIndex + 1].type = STT_FUNC
  /\ symbolsOf(p)[rel.symbolIndex + 1].name # ""

\* The entry cannot be patched: unknown symbol or unsupported type.
Unpatchable(p, rel) ==
  ~NamesFunction(p, rel) \/ rel.type \notin {R_X86_64_PC32, R_X86_64_PLT32, R_X86_64_32}

\* C17: a relocation entry with a symbol that is not in the function map, or
\* with a type outside PC32, PLT32 and 32, changes nothing in the engine's
\* memory; the loop goes on to the next entry, and after the last entry the
\* handler completes and creates the debugger.
UnpatchableRelocationSkipped ==
  [][/\ (/\ build.pc = "relocs"
         /\ build.r <= Len(build.file.view.relas)
         /\ Unpatchable(build.file, build.file.view.relas[build.r]))
          => /\ build'.engine = build.engine
             /\ build'.pc = "relocs"
             /\ build'.r = build.r + 1
     /\ (/\ build.pc = "relocs"
         /\ build.r > Len(build.file.view.relas)
         /\ \E k \in DOMAIN build.file.view.relas :
              Unpatchable(build.file, build.file.view.relas[k]))
          => /\ build'.pc = "done"
             /\ current' = current + 1]_vars

\* Initialize completed on an object whose first relocation names an unknown
\* symbol and whose second relocation was patched.
SkippedThenPatched ==
  /\ build.pc = "done"
  /\ Len(build.file.view.relas) = 2
  /\ ~NamesFunction(build.file, build.file.view.relas[1])
  /\ Cardinality(Patches) = 1

\* C18: loading a buffer that does not start with 0x7F 'E' 'L' 'F' fails with
\* an error and is not kept in `parsed`, and the engine is never asked to map
\* anything for such a buffer.
ForeignBufferNeverMapped ==
  /\ (ev.op = "load" /\ ev.magic # ElfMagic) => (ev.err # "none" /\ build = NoBuild)
  /\ parsed # NoParsed => parsed.view.magic = ElfMagic
  /\ (build.pc # "idle" /\ build.engine.maps # << >>) => build.file.view.magic = ElfMagic

\* A buffer with a foreign signature was rejected while an earlier file is
\* still held in `parsed`.
ForeignBufferRejected ==
  /\ ev.op = "load"
  /\ ev.magic = <<77, 90, 144, 0>>
  /\ ev.err = "Not an ELF file"
  /\ parsed # NoParsed

\* ------------------------------------------------ inputs of the resolver
\* The longest code, in instructions, a resolved file holds.
MaxInsns == 3

\* Machine code of the instructions the sample text sections are made of:
\* push rbp, REX.W mov rbp,rsp, mov ebp,esp, pop rbp, nop, ret.
InsnBytes == { <<85>>, <<72, 137, 229>>, <<137, 229>>, <<93>>, <<144>>, <<195>> }

RECURSIVE Flatten(_)
Flatten(chunks) ==
  IF chunks = << >> THEN << >> ELSE Head(chunks) \o Flatten(Tail(chunks))

\* The text sections: every sequence of at most MaxInsns such instructions.
Texts == { Flatten(c) : c \in UNION { [1..n -> InsnBytes] : n \in 0..MaxInsns } }

\* Symbol tables for the resolver: table order against address order, raw
\* values on both sides of 0x1000, an unnamed function, a named object, no
\* function at all.
ResolverSymbolTables ==
  { <<NullSymbol, FuncSymbol("main", 8), FuncSymbol("helper", 0)>>,
    <<NullSymbol, FuncSymbol("main", 4198400), FuncSymbol("low", 4095), FuncSymbol("edge", 4096)>>,
    <<NullSymbol, [name |-> "counter", value |-> 16, type |-> 1, size |-> 4],
      FuncSymbol("", 8), FuncSymbol("f", 8)>>,
    <<NullSymbol, UndefSymbol("printf")>>,
    <<NullSymbol>> }

\* Files with .symtab, with or without .strtab.
SymtabBuffers ==
  { [ResolverBuffer(<<85, 72, 137, 229, 93, 195>>, a) EXCEPT
       !.hasSymtab = TRUE, !.symbols = st, !.hasStrtab = h, !.class64 = c] :
      st \in ResolverSymbolTables \cup {<< >>}, a \in {0, 4198400}, h \in BOOLEAN, c \in BOOLEAN }

\* Files with .dynsym only, with or without .dynstr, with or without .strtab.
DynsymBuffers ==
  { [ResolverBuffer(<<85, 72, 137, 229, 93, 195>>, 4198400) EXCEPT
       !.hasDynsym = TRUE, !.dynSymbols = st, !.hasDynstr = h, !.hasStrtab = s] :
      st \in ResolverSymbolTables, h \in BOOLEAN, s \in BOOLEAN }

\* Files with no function symbol: no table, or a table that names none.
BareBuffers ==
  { [ResolverBuffer(t, 0) EXCEPT !.class64 = c] : t \in Texts, c \in BOOLEAN }
  \cup { [ResolverBuffer(t, 0) EXCEPT !.hasSymtab = TRUE, !.hasStrtab = TRUE,
                                      !.symbols = <<NullSymbol, UndefSymbol("printf")>>] :
           t \in Texts }

ResolverBuffers == SymtabBuffers \cup DynsymBuffers \cup BareBuffers

\* The base addresses the callers pass: the object base, the address of .text.
TextBases == {ObjectBase, 4198400}

\* A file has been parsed; nothing has been resolved yet.
ResolveInit ==
  /\ dbg = [i \in Ids |-> NoDebugger]
  /\ current = 0
  /\ parsed \in { parseELF(buf).value : buf \in ResolverBuffers }
  /\ ui = [stepDisabled |-> TRUE, resetDisabled |-> TRUE, runDisabled |-> TRUE,
           runHidden |-> FALSE, stopHidden |-> TRUE]
  /\ perfMode = FALSE
  /\ events = 0
  /\ ev = NoEvent
  /\ hist = [i \in Ids |-> NoHist]
  /\ stale = {}
  /\ build = NoBuild
  /\ resolved = NoResolved
  /\ page = NoPage
  /\ cpu = NoCpu

\* A call of extractFunctionSymbols on the parsed file.
ExtractFunctionSymbols ==
  /\ \E textBaseAddr \in TextBases :
       resolved' = [called |-> TRUE, mapped |-> FALSE, textBaseAddr |-> textBaseAddr,
                    functions |-> extractFunctionSymbols(parsed, textBaseAddr)]
  /\ UNCHANGED <<dbg, current, parsed, ui, perfMode, events, ev, hist, stale, build, page, cpu>>

\* ------------------------------------------------ source correlation mapper
\* The functions extractCFunctions found in the editor text: none, one, two,
\* three.
CFunctionLists ==
  { << >>,
    <<[name |-> "main", startLine |-> 1, endLine |-> 3]>>,
    <<[name |-> "helper", startLine |-> 1, endLine |-> 3],
      [name |-> "main", startLine |-> 5, endLine |-> 8]>>,
    <<[name |-> "a", startLine |-> 1, endLine |-> 2],
      [name |-> "b", startLine |-> 3, endLine |-> 4],
      [name |-> "main", startLine |-> 5, endLine |-> 9]>> }

\* The loop of detectAssemblyFunctionBoundaries from instruction i on: an
\* instruction whose text holds 'push rbp' or 'push ebp' closes the open
\* function at the instruction before it and opens the next one.
RECURSIVE boundariesFrom(_, _, _)
boundariesFrom(assemblyInstructions, i, currentFunctionStart) ==
  IF i > Len(assemblyInstructions)
  THEN IF currentFunctionStart # Undefined /\ Len(assemblyInstructions) > 0
       THEN <<[startAddr |-> currentFunctionStart,
               endAddr |-> assemblyInstructions[Len(assemblyInstructions)].address]>>
       ELSE << >>
  ELSE IF /\ assemblyInstructions[i].mnemonic = "push"
          /\ assemblyInstructions[i].op_str \in {"rbp", "ebp"}
       THEN (IF currentFunctionStart # Undefined /\ i > 1
             THEN <<[startAddr |-> currentFunctionStart,
                     endAddr |-> assemblyInstructions[i - 1].address]>>
             ELSE << >>)
            \o boundariesFrom(assemblyInstructions, i + 1, assemblyInstructions[i].address)
       ELSE boundariesFrom(assemblyInstructions, i + 1, currentFunctionStart)

detectAssemblyFunctionBoundaries(assemblyInstructions) ==
  boundariesFrom(assemblyInstructions, 1, Undefined)

\* createSimpleFunctionMapping with the source functions taken from the end
\* of their list.
createSimpleFunctionMapping_fromEnd(cFunctions, asmFunctions, assemblyInstructions) ==
  LET n == IF Len(cFunctions) <= Len(asmFunctions) THEN Len(cFunctions) ELSE Len(asmFunctions)
      inside(k, i) == /\ assemblyInstructions[k].address >= asmFunctions[i].startAddr
                      /\ assemblyInstructions[k].address <= asmFunctions[i].endAddr
      hit == { k \in DOMAIN assemblyInstructions : \E i \in 1..n : inside(k, i) }
  IN [address \in { assemblyInstructions[k].address : k \in hit } |->
        LET k == CHOOSE k \in hit : assemblyInstructions[k].address = address
            i == CHOOSE i \in 1..n : inside(k, i) /\ \A j \in 1..n : inside(k, j) => j <= i
            cFunc == cFunctions[Len(cFunctions) - i + 1]
        IN [functionName |-> cFunc.name, functionStart |-> cFunc.startLine,
            functionEnd |-> cFunc.endLine]]

\* createSimpleFunctionMapping: lineMapping after the loops; for i up to the
\* shorter length every instruction address in the range of assembly function
\* i is set to source function i, a later i replacing an earlier one.
createSimpleFunctionMapping(cFunctions, asmFunctions, assemblyInstructions) ==
  LET n == IF Len(cFunctions) <= Len(asmFunctions) THEN Len(cFunctions) ELSE Len(asmFunctions)
      inside(k, i) == /\ assemblyInstructions[k].address >= asmFunctions[i].startAddr
                      /\ assemblyInstructions[k].address <= asmFunctions[i].endAddr
      hit == { k \in DOMAIN assemblyInstructions : \E i \in 1..n : inside(k, i) }
  IN [address \in { assemblyInstructions[k].address : k \in hit } |->
        LET k == CHOOSE k \in hit : assemblyInstructions[k].address = address
            i == CHOOSE i \in 1..n : inside(k, i) /\ \A j \in 1..n : inside(k, j) => j <= i
            cFunc == cFunctions[i]
        IN [functionName |-> cFunc.name, functionStart |-> cFunc.startLine,
            functionEnd |-> cFunc.endLine]]

\* mapAssemblyToC: the mapping is made if the counts are equal or both lists
\* are non-empty.
mapAssemblyToC(cFunctions, assemblyInstructions) ==
  LET asmFunctions == detectAssemblyFunctionBoundaries(assemblyInstructions)
  IN IF Len(asmFunctions) = Len(cFunctions) \/ (Len(cFunctions) > 0 /\ Len(asmFunctions) > 0)
     THEN createSimpleFunctionMapping(cFunctions, asmFunctions, assemblyInstructions)
     ELSE EmptyMap

\* A call of mapAssemblyToC on the instructions of the disassembly of .text.
MapAssemblyToC ==
  /\ \E textBaseAddr \in TextBases, cFunctions \in CFunctionLists :
       LET assemblyInstructions ==
             disasmFrom(parsed.view.text, 1, parsed.elfHeader.class = "ELF64", textBaseAddr)
       IN resolved' = [called |-> FALSE, mapped |-> TRUE, textBaseAddr |-> textBaseAddr,
                       cFunctions |-> cFunctions,
                       assemblyInstructions |-> assemblyInstructions,
                       asmFunctions |-> detectAssemblyFunctionBoundaries(assemblyInstructions),
                       lineMapping |-> mapAssemblyToC(cFunctions, assemblyInstructions)]
  /\ UNCHANGED <<dbg, current, parsed, ui, perfMode, events, ev, hist, stale, build, page, cpu>>

ResolveNext ==
  \/ ExtractFunctionSymbols
  \/ MapAssemblyToC

ResolveSpec == ResolveInit /\ [][ResolveNext]_vars

\* ----------------------------------------------- properties of the resolver
\* The named function symbols of the table the resolver reads.
NamedFunctionSymbols(p) ==
  LET table == symbolTableOf(p)
  IN IF table.found
     THEN { k \in DOMAIN table.symbols :
              table.symbols[k].type = STT_FUNC /\ table.symbols[k].name # "" }
     ELSE {}

\* C19: when the symbol table names functions, the resolver returns only
\* entries of named function symbols, in ascending order of address, with a
\* raw value below 0x1000 translated to load bias + value and any other raw
\* value used as the address.
SymbolsResolved ==
  (resolved.called /\ NamedFunctionSymbols(parsed) # {}) =>
    LET fs == resolved.functions
        syms == symbolTableOf(parsed).symbols
    IN /\ \A k \in DOMAIN fs :
            /\ fs[k].name # ""
            /\ \E j \in NamedFunctionSymbols(parsed) :
                 syms[j].name = fs[k].name /\ syms[j].value = fs[k].offset
            /\ fs[k].address = IF fs[k].offset < 4096
                               THEN resolved.textBaseAddr + fs[k].offset
                               ELSE fs[k].offset
       /\ \A k \in 1..(Len(fs) - 1) : fs[k].address <= fs[k + 1].address

\* Three functions resolved against the object base: the one with raw value
\* 0x1000 comes first at that address, the one with raw value 0xFFF last.
ResolvedOnBothSidesOfLimit ==
  /\ resolved.called
  /\ resolved.textBaseAddr = ObjectBase
  /\ Len(resolved.functions) = 3
  /\ resolved.functions[1].name = "edge"
  /\ resolved.functions[3].name = "low"

\* The text of the file holds a push of the frame pointer immediately followed
\* by the move that sets the new frame pointer.
HasPrologueIdiom(p) ==
  LET instructions == disasmFrom(p.view.text, 1, p.elfHeader.class = "ELF64", 0)
  IN \E i \in DOMAIN instructions : isPrologue(instructions, i)

\* C20: for a relocatable object with no symbol table, or with no string table
\* paired with it, the resolver returns at least one function boundary
\* whenever the text holds the prologue idiom.
PrologueFallbackTaken ==
  (/\ resolved.called
   /\ Relocatable(parsed)
   /\ ~symbolTableOf(parsed).found
   /\ HasPrologueIdiom(parsed)) => Len(resolved.functions) >= 1

\* The fallback applies when a symbol table is read and names no function.
PrologueFallbackAfterEmptyTable ==
  (/\ resolved.called
   /\ symbolTableOf(parsed).found
   /\ Len(symbolTableOf(parsed).symbols) > 0
   /\ NamedFunctionSymbols(parsed) = {}
   /\ HasPrologueIdiom(parsed)) => Len(resolved.functions) >= 1

\* ------------------------------------------------------- function boundaries
\* The function symbols of the file the handler built the image of.
BuiltFunctions ==
  { sym \in { symbolsOf(build.file)[k] : k \in DOMAIN symbolsOf(build.file) } :
      sym.name # "" /\ sym.type = STT_FUNC }

\* The address after the last byte of .text in the image.
TextEnd == build.sectionAddresses[".text"] + SectionNamed(build.file, ".text").size

\* C21: a function whose symbol has size 0 ends at the start of the next
\* function by address, the last one at the end of the section, and every
\* boundary has start < end.
BoundaryEndsAtNextFunction ==
  (build.pc \in {"relocs", "done"} /\ build.isObjectFile) =>
    \A sym \in BuiltFunctions :
      LET bound == build.functionBoundaries[sym.name]
          later == { build.functionBoundaries[o.name].start : o \in BuiltFunctions } \
                     (0..bound.start)
          end == bound.start + bound.size
      IN /\ sym.size = 0 =>
              end = IF later = {} THEN TextEnd
                    ELSE CHOOSE a \in later : \A c \in later : a <= c
         /\ bound.start < end

\* A function of size 0 that is followed by another one ends where that one
\* starts.
BoundaryEndsAtFollowingFunction ==
  (build.pc \in {"relocs", "done"} /\ build.isObjectFile) =>
    \A sym \in BuiltFunctions :
      LET bound == build.functionBoundaries[sym.name]
          later == { build.functionBoundaries[o.name].start : o \in BuiltFunctions } \
                     (0..bound.start)
      IN (sym.size = 0 /\ later # {}) =>
           bound.start + bound.size = CHOOSE a \in later : \A c \in later : a <= c

StoredNamesFromSameSource ==
  page.applied.stored => page.applied.madeFrom = page.appliedTo

\* C30: after a load attempt that failed the earlier image is no longer held
\* in `parsed`, so the Initialize handler that follows maps nothing.
ImageDiscardedOnFailedLoad ==
  page.lastLoad = "failed" =>
    (parsed = NoParsed /\ (build.pc # "idle" => build.engine.maps = << >>))

\* A compile discards the earlier image before the new file is loaded.
ImageDiscardedOnCompile ==
  (ev.op \in {"compile", "link"} /\ parsed # NoParsed) =>
    (page.lastLoad = "loaded" /\ parsed.view = Artifact(page.source, ev.op))

\* ------------------------------------------------- properties of the mapper
\* C24: source and assembly functions are paired by position up to the
\* shorter list; every instruction address in the range of assembly function
\* i is mapped to the lines of source function i, lies in no other range, and
\* nothing else is mapped.
PairedByPosition ==
  resolved.mapped =>
    LET c == resolved.cFunctions
        a == resolved.asmFunctions
        ins == resolved.assemblyInstructions
        lm == resolved.lineMapping
        n == IF Len(c) <= Len(a) THEN Len(c) ELSE Len(a)
        inside(address, i) == address >= a[i].startAddr /\ address <= a[i].endAddr
    IN /\ \A i \in 1..n : \A k \in DOMAIN ins :
            inside(ins[k].address, i) =>
              /\ ins[k].address \in DOMAIN lm
              /\ lm[ins[k].address] = [functionName |-> c[i].name,
                                       functionStart |-> c[i].startLine,
                                       functionEnd |-> c[i].endLine]
              /\ \A j \in DOMAIN a : inside(ins[k].address, j) => j = i
       /\ \A address \in DOMAIN lm : \E i \in 1..n : inside(address, i)

\* Two assembly functions were paired with the first two of three source
\* functions.
TwoFunctionsPaired ==
  /\ resolved.mapped
  /\ Len(resolved.cFunctions) = 3
  /\ Len(resolved.asmFunctions) = 2
  /\ { resolved.lineMapping[x].functionName : x \in DOMAIN resolved.lineMapping } = {"a", "b"}

\* C28: the boundary scan of the mapper and the fallback detector of the
\* resolver find the same function start addresses in the same instructions.
SameFunctionStarts ==
  resolved.mapped =>
    LET detected == detectFunctionsFromAssembly(parsed, resolved.textBaseAddr)
    IN { resolved.asmFunctions[i].startAddr : i \in DOMAIN resolved.asmFunctions }
       = { detected[i].address : i \in DOMAIN detected }

\* Every start the fallback detector finds is a start of the boundary scan.
DetectedStartsAreBoundaries ==
  resolved.mapped =>
    LET detected == detectFunctionsFromAssembly(parsed, resolved.textBaseAddr)
    IN { detected[i].address : i \in DOMAIN detected }
       \subseteq { resolved.asmFunctions[i].startAddr : i \in DOMAIN resolved.asmFunctions }

LoadableSections ==
  { i \in DOMAIN build.file.sectionHeaders :
      /\ HasBit(build.file.sectionHeaders[i].flags, SHF_ALLOC)
      /\ build.file.sectionHeaders[i].size > 0
      /\ build.file.sectionHeaders[i].offset > 0 }

\* The bytes of section i were written from the file to its target address.
SectionLoaded(i) ==
  LET sh == build.file.sectionHeaders[i]
  IN \E k \in DOMAIN build.engine.writes :
       LET w == build.engine.writes[k]
       IN /\ w.src.file /\ w.src.offset = sh.offset /\ w.len = sh.size
          /\ IF sh.addr # 0 THEN w.addr = sh.addr
             ELSE /\ sh.name \in DOMAIN build.sectionAddresses
                  /\ w.addr = build.sectionAddresses[sh.name]

\* The page range of a section placed at its own address.
PageRangeOf(sh) ==
  [addr |-> PageFloor(sh.addr), size |-> Max(PageSize, PageCeil(sh.size))]

\* Section i shares pages with an allocatable section before it.
SharesPagesWithEarlier(i) ==
  LET sh == build.file.sectionHeaders
  IN \E j \in 1..(i - 1) :
       /\ HasBit(sh[j].flags, SHF_ALLOC) /\ sh[j].size > 0
       /\ sh[i].addr # 0 /\ sh[j].addr # 0
       /\ Overlaps(PageRangeOf(sh[i]).addr, PageRangeOf(sh[i]).size,
                   PageRangeOf(sh[j]).addr, PageRangeOf(sh[j]).size)

\* C29: after Initialize every allocatable, non-empty, file-backed section
\* has its bytes in emulator memory at its target address, also a section
\* that shares its page range with a section mapped before it.
EverySectionLoaded ==
  build.pc = "done" => \A i \in LoadableSections : SectionLoaded(i)

\* Section i ends inside the page range the handler computes for it.
FitsPageRange(i) ==
  LET sh == build.file.sectionHeaders[i]
  IN sh.addr + sh.size <= PageRangeOf(sh).addr + PageRangeOf(sh).size

\* What the handler does guarantee: the sections of a linked executable
\* that share no page with an earlier section, and end inside the page range
\* computed for them, are loaded.
SectionsOnOwnPagesLoaded ==
  (build.pc = "done" /\ ~build.isObjectFile) =>
    \A i \in LoadableSections :
      (~SharesPagesWithEarlier(i) /\ FitsPageRange(i)) => SectionLoaded(i)

\* ------------------------------------------------- properties of the trace
\* The step is a Step request handled on the current instance.
StepRequest == current > 0 /\ events' = events + 1 /\ ev'.op = "step"

\* The trace of the current instance grew by one record for the address the
\* program counter had before the step and the accumulator it has after it.
OneRecordAppended ==
  LET before == dbg[current]
      after == dbg'[current]
  IN /\ Len(after.executionTrace) = Len(before.executionTrace) + 1
     /\ after.executionTrace[Len(after.executionTrace)]
          = [address |-> before.engine.pc, rax |-> after.engine.rax]
     /\ SubSeq(after.executionTrace, 1, Len(before.executionTrace)) = before.executionTrace

\* C27: a Step that succeeds appends exactly one record to the execution
\* trace, holding the program counter from before the step and the
\* accumulator from after it; a Step that fails appends none.
StepAppendsOneRecord ==
  [][ StepRequest =>
        IF ev'.err = "none" THEN OneRecordAppended
        ELSE dbg'[current].executionTrace = dbg[current].executionTrace ]_vars

\* A Step carried out the instruction at LoopAddr and its record is the last
\* of a trace of two.
StepRecorded ==
  /\ current > 0 /\ ev.op = "step" /\ ev.who = current /\ ev.executed /\ ev.err = "none"
  /\ Len(dbg[current].executionTrace) = 2
  /\ dbg[current].executionTrace[2] = [address |-> LoopAddr, rax |-> ResultOf(LoopAddr)]

RunModeConsistent ==
  \A i \in Ids : ~(dbg[i].isRunning /\ dbg[i].isPaused)

\* A Run of an instance ended at a breakpoint after that instance had had a
\* failed step, and left the instance paused.
PausedAfterBreakpointAndError ==
  \E i \in Ids : /\ hist[i].ended = "breakpoint" /\ hist[i].faulted
                 /\ dbg[i].isPaused /\ ~dbg[i].isRunning

\* C32: no instance has more than one continueExecution callback pending.
AtMostOneContinuation ==
  \A i \in Ids : dbg[i].timers <= 1

\* A Run requested of an instance that is running schedules no callback.
RunWhileRunningSchedulesNothing ==
  [][\A i \in Ids :
       (ev'.op = "run" /\ ev'.who = i /\ dbg[i].isRunning) => dbg'[i].timers = dbg[i].timers]_vars

\* The layout updateButtonStates gives the controls of a debugger that is not
\* running, and the part of the other layout that the controls of a running
\* debugger have.
StoppedLayout(u) ==
  /\ ~u.runDisabled /\ ~u.runHidden
  /\ ~u.stepDisabled /\ ~u.resetDisabled
  /\ u.stopHidden

RunningLayout(u) == u.stepDisabled /\ u.resetDisabled

\* C33: outside performance mode the controls match the run mode of the
\* current debugger: Run, Step and Reset enabled and Stop hidden when it is
\* not running, Step and Reset disabled while it is running.
ButtonsMatchRunMode ==
  (~perfMode /\ current > 0) =>
    IF dbg[current].isRunning THEN RunningLayout(ui) ELSE StoppedLayout(ui)

\* Outside performance mode, a Run that ends by Stop, at the ceiling or at a
\* halt opcode, and a Reset, leave the controls in the stopped layout.
ButtonsFollowStopExecution ==
  [][\A i \in Ids :
       (/\ ~perfMode
        /\ dbg[i].isRunning /\ ~dbg'[i].isRunning
        /\ dbg'[i].lastLog \in {"limit", "hlt", "stopped", "reset"}) => StoppedLayout(ui')]_vars

\* --------------------------------------------- properties of the mapped regions
\* The successful mem_map requests made for sections of the file.
SectionMaps == { k \in SectionRequests : build.engine.maps[k].ok }

\* C34: the page range mapped for a section contains the section, from its
\* target address to its target address plus its size.
MappedRangeContainsSection ==
  build.pc # "idle" =>
  \A k \in SectionMaps :
    LET m == build.engine.maps[k]
        targetAddr == build.sectionAddresses[m.name]
        sh == SectionNamed(build.file, m.name)
    IN m.addr <= targetAddr /\ targetAddr + sh.size <= m.addr + m.size

\* What the handler does guarantee: the range starts at or below the target
\* address, and contains a section whose target address is page-aligned (as
\* is every address the handler assigns in a relocatable object).
MappedRangeContainsAlignedSection ==
  build.pc # "idle" =>
  \A k \in SectionMaps :
    LET m == build.engine.maps[k]
        targetAddr == build.sectionAddresses[m.name]
        sh == SectionNamed(build.file, m.name)
    IN /\ m.addr <= targetAddr
       /\ targetAddr % PageSize = 0 => targetAddr + sh.size <= m.addr + m.size

\* C35: the region mapped for a section is readable, writable only if the
\* section has SHF_WRITE, and executable only if it has SHF_EXECINSTR.
ProtectionFollowsFlags ==
  build.pc # "idle" =>
  \A k \in SectionMaps :
    LET m == build.engine.maps[k]
        sh == SectionNamed(build.file, m.name)
    IN /\ "PROT_READ" \in m.prot
       /\ "PROT_WRITE" \in m.prot => HasBit(sh.flags, SHF_WRITE)
       /\ "PROT_EXEC" \in m.prot => HasBit(sh.flags, SHF_EXECINSTR)

\* What the handler does guarantee: every section region is writable, it is
\* executable exactly if the section has SHF_EXECINSTR, and readable exactly
\* if the section has SHF_WRITE.
ProtectionAsComputed ==
  build.pc # "idle" =>
  \A k \in SectionMaps :
    LET m == build.engine.maps[k]
        sh == SectionNamed(build.file, m.name)
    IN /\ "PROT_WRITE" \in m.prot
       /\ "PROT_EXEC" \in m.prot <=> HasBit(sh.flags, SHF_EXECINSTR)
       /\ "PROT_READ" \in m.prot <=> HasBit(sh.flags, SHF_WRITE)

\* ------------------------------------------------------ properties of Reset
\* The run of the program on the engine is over with the program counter at
\* the halt trampoline.
AtTrampoline(lastLog, rip) == rip = cpu.exitAddr /\ lastLog \in {"hlt", "completed"}

\* C36: on a relocatable object with a trampoline, after Run, Reset, the
\* stack pointer and the return address on the stack are those Initialize
\* left, and the Run after the Reset ends at the trampoline as the first did.
ResetRestoresInitialState ==
  (cpu.on /\ cpu.exitAddr # Undefined /\ cpu.user # "none"
     /\ AtTrampoline(cpu.firstRun.lastLog, cpu.firstRun.rip)) =>
    /\ cpu.user = "reset" =>
         /\ cpu.rsp = cpu.engine.sp
         /\ readWord(cpu, cpu.rsp) = cpu.exitAddr
    /\ (cpu.user = "run" /\ ~cpu.isRunning) => AtTrampoline(cpu.lastLog, cpu.rip)

\* What reset() does guarantee: the program counter is at the entry point
\* and the mode flags and the instruction count are those of a new debugger.
ResetRestoresProgramCounter ==
  (cpu.on /\ cpu.user = "reset") =>
    /\ cpu.rip = cpu.entryPoint
    /\ ~cpu.isRunning /\ ~cpu.isPaused
    /\ cpu.executionCount = 0

\* ------------------------------------------------ properties of the harness
\* C37: the harness resolves only after a run that ended at a halt opcode.
HarnessResolvesOnlyAfterHalt ==
  (cpu.on /\ cpu.harness = "resolved" /\ cpu.user = "none") => cpu.lastLog \in {"hlt", "completed"}

\* What the harness does guarantee: it resolves with the accumulator of a
\* debugger that is not running, and after a run of a program that has a
\* trampoline that run ended at the trampoline.
HarnessResolvesWhenNotRunning ==
  (cpu.on /\ cpu.harness = "resolved" /\ cpu.user = "none") =>
    /\ ~cpu.isRunning /\ cpu.returnValue = cpu.rax
    /\ cpu.exitAddr # Undefined => AtTrampoline(cpu.lastLog, cpu.rip)

\* A settled promise stays as it is, and no instruction runs for the harness
\* after its timeout.
HarnessSettlesOnce ==
  [][(cpu.on /\ build.pc = "done" /\ cpu.harness \in {"resolved", "rejected"}) =>
       /\ cpu'.harness = cpu.harness
       /\ cpu'.returnValue = cpu.returnValue
       /\ cpu.harness = "rejected" => cpu' = cpu]_vars

====
